---------------------------- MODULE Spec2Model ----------------------------
(***************************************************************************)
(* A model of the RAG core of Inter-Compass-Service:                       *)
(*   - the Ingestor (RAGService.processDocument / reprocessDocument /      *)
(*     deleteDocument) over the documents and document_chunks tables,      *)
(*   - the Chunker (ChunkingService.chunkText) and the Embedder            *)
(*     (EmbeddingService.generateBatchEmbeddings) as pure operators,       *)
(*   - the Model Client's RequestQueue and retryWithBackoff.               *)
(* Strings are sequences of one-character strings.  Every await of the     *)
(* source is a point where another request handler may run.                *)
(***************************************************************************)
EXTENDS Integers, Sequences, FiniteSets, Bags, TLC

VARIABLES
    documents,        \* table documents: documentid -> documentcontent
    nextDocId,        \* the SERIAL sequence behind documents.documentid
    document_chunks,  \* table document_chunks: a bag of rows
    proc,             \* one record per request handler of the Ingestor
    queue,            \* RequestQueue.queue: request ids, head first
    processing,       \* RequestQueue.processing
    lastRequestTime,  \* RequestQueue.lastRequestTime
    now,              \* Date.now(), in ticks
    req,              \* one record per enqueue call (the QueuedRequest and its promise)
    nextReq,          \* the number of enqueue calls made so far, plus one
    worker,           \* where processQueue's loop stands
    hist,             \* the provider's last call and last RetryInfo (not program state)
    retry,            \* one run of retryWithBackoff
    embed,            \* the embedding provider calls of an ingestion and of a query
    query,            \* one call of answerQuestion
    batch,            \* one call of reprocessAllDocuments
    job,              \* the jobs of the document-ingestion queue and their documents
    requestQueue,     \* a RequestQueue with its loops, followed without the clock
    call              \* one call of a function of the services, with its result

storeVars == <<documents, nextDocId, document_chunks, proc>>
queueVars == <<queue, processing, lastRequestTime, now, req, nextReq, worker, hist>>
vars == <<documents, nextDocId, document_chunks, proc,
          queue, processing, lastRequestTime, now, req, nextReq, worker, hist,
          retry, embed, query, batch, job, requestQueue, call>>

-----------------------------------------------------------------------------
(* Bounds of the model *)

MaxDocs == 2         \* document rows ever inserted, calls made one at a time
MaxDocsConcurrent == 1   \* document rows ever inserted, calls made concurrently
CHUNK_TOKENS == 2    \* chunkSize handed to chunkText (tokens)
CHUNK_OVERLAP_TOKENS == 1   \* overlapSize handed to chunkText (tokens)
maxQueueSize == 2    \* RequestQueue.maxQueueSize
requestInterval == 3 \* RequestQueue.requestInterval (ticks)
baseDelay == 1       \* retryWithBackoff's baseDelay (ticks)
maxDelay == 8        \* retryWithBackoff's maxDelay (ticks)
timeout == 4         \* enqueue's timeout (ticks)
MaxRetriesTried == 2 \* the greatest maxRetries handed to retryWithBackoff
retryAfter == 2      \* the retryDelay of a RetryInfo detail (ticks)
MaxTexts == 6        \* texts handed to one generateBatchEmbeddings call
Horizon == 4         \* ticks of the clock that are followed
MaxRows == 3         \* chunk rows stored when questions are asked
MaxTopK == 2         \* the greatest topK handed to retrieveRelevantChunks on its own
MaxBatchTexts == 11  \* texts handed to one embedBatch call
MaxLen == 5          \* the length of the strings handed to cleanText
MaxEnqueues == 4     \* enqueue calls made on the RequestQueue followed without the clock
MaxJobs == 2         \* documents an ingestion job is added for
MaxFaults == 1       \* times a cause of transient failures appears

(* Program constants *)

CHARS_PER_TOKEN == 4
batchSize == 5
maxRetries == 2      \* generateText's and sendMessage's retry configuration
backoffFactor == 2   \* retryWithBackoff's default
TOP_K == 5           \* RAGService.TOP_K
embedBatchSize == 10 \* batchSize of rag/services/embed.ts
attempts == 3        \* defaultJobOptions.attempts of the ingestion queue
concurrency == 2     \* of the ingestion worker
MIN_RELEVANCE_SCORE == 30   \* RAGService.MIN_RELEVANCE_SCORE, 0.3, in hundredths

\* the request handlers of the Ingestor: two, the fewest that interleave
Procs == {1, 2}
DocIds == 1..(IF MaxDocs >= MaxDocsConcurrent THEN MaxDocs ELSE MaxDocsConcurrent)

-----------------------------------------------------------------------------
(* Strings *)

Range(f) == {f[x] : x \in DOMAIN f}
Max(S) == CHOOSE x \in S : \A y \in S : y <= x
Min(S) == CHOOSE x \in S : \A y \in S : x <= y

IsSpace(c) == c \in {" ", "\n", "\t", "\r"}
IsUpperCase(c) == c \in {"A", "B", "C", "D"}
IsSentenceEnd(c) == c \in {".", "!", "?"}

\* String.prototype.slice(from, to) with 0-based from and exclusive to
Slice(s, from, to) == SubSeq(s, from + 1, to)

RECURSIVE TrimStart(_)
TrimStart(s) == IF s # <<>> /\ IsSpace(Head(s)) THEN TrimStart(Tail(s)) ELSE s

RECURSIVE TrimEnd(_)
TrimEnd(s) ==
    IF s # <<>> /\ IsSpace(s[Len(s)]) THEN TrimEnd(SubSeq(s, 1, Len(s) - 1)) ELSE s

trim(s) == TrimEnd(TrimStart(s))

\* does sub occur in s at 0-based position k
OccursAt(s, sub, k) ==
    /\ k + Len(sub) <= Len(s)
    /\ \A j \in 1..Len(sub) : s[k + j] = sub[j]

\* String.prototype.lastIndexOf(sub): 0-based, -1 when absent
lastIndexOf(s, sub) ==
    LET at == {k \in 0..Len(s) : OccursAt(s, sub, k)}
    IN IF at = {} THEN -1 ELSE Max(at)

\* paragraphs joined by a blank line
RECURSIVE JoinParagraphs(_)
JoinParagraphs(ps) ==
    IF ps = <<>> THEN <<>>
    ELSE IF Len(ps) = 1 THEN ps[1]
    ELSE ps[1] \o <<"\n", "\n">> \o JoinParagraphs(Tail(ps))

-----------------------------------------------------------------------------
(* Extractor: PDFProcessor.cleanText *)

NUL == "NUL"   \* stands for the character U+0000

\* the length of the longest prefix of s made of characters of set cs
RECURSIVE RunLength(_, _)
RunLength(s, cs) ==
    IF s # <<>> /\ Head(s) \in cs THEN 1 + RunLength(Tail(s), cs) ELSE 0

\* .replace(/\r\n/g, '\n')
RECURSIVE ReplaceCRLF(_)
ReplaceCRLF(s) ==
    IF s = <<>> THEN <<>>
    ELSE IF Len(s) >= 2 /\ s[1] = "\r" /\ s[2] = "\n"
         THEN <<"\n">> \o ReplaceCRLF(SubSeq(s, 3, Len(s)))
         ELSE <<s[1]>> \o ReplaceCRLF(Tail(s))

\* .replace(/\n{3,}/g, '\n\n')
RECURSIVE CollapseNewlines(_)
CollapseNewlines(s) ==
    IF s = <<>> THEN <<>>
    ELSE LET n == RunLength(s, {"\n"})
         IN IF n >= 3 THEN <<"\n", "\n">> \o CollapseNewlines(SubSeq(s, n + 1, Len(s)))
            ELSE IF n >= 1 THEN SubSeq(s, 1, n) \o CollapseNewlines(SubSeq(s, n + 1, Len(s)))
            ELSE <<s[1]>> \o CollapseNewlines(Tail(s))

\* .replace(/[ \t]+/g, ' ')
RECURSIVE CollapseSpaces(_)
CollapseSpaces(s) ==
    IF s = <<>> THEN <<>>
    ELSE LET n == RunLength(s, {" ", "\t"})
         IN IF n >= 1 THEN <<" ">> \o CollapseSpaces(SubSeq(s, n + 1, Len(s)))
            ELSE <<s[1]>> \o CollapseSpaces(Tail(s))

\* .replace(/\u0000/g, '')
RemoveNul(s) == SelectSeq(s, LAMBDA c : c # NUL)

cleanText(text) ==
    trim(RemoveNul(CollapseSpaces(CollapseNewlines(ReplaceCRLF(text)))))

-----------------------------------------------------------------------------
(* Chunker: ChunkingService *)

\* The end (1-based, inclusive) of the match of /\n\s*\n/ that starts at
\* position i of text, \s* being greedy; 0 when there is no match at i.
ParagraphBreakEnd(text, i) ==
    IF text[i] # "\n" THEN 0
    ELSE LET ends == {j \in (i + 1)..Len(text) :
                        /\ text[j] = "\n"
                        /\ \A k \in (i + 1)..(j - 1) : IsSpace(text[k])}
         IN IF ends = {} THEN 0 ELSE Max(ends)

\* text.split(/\n\s*\n/): the pieces of text from position start on, the scan
\* standing at position i
RECURSIVE SplitParagraphs(_, _, _)
SplitParagraphs(text, start, i) ==
    IF i > Len(text) THEN <<SubSeq(text, start, Len(text))>>
    ELSE LET e == ParagraphBreakEnd(text, i)
         IN IF e = 0 THEN SplitParagraphs(text, start, i + 1)
            ELSE <<SubSeq(text, start, i - 1)>> \o SplitParagraphs(text, e + 1, e + 1)

splitIntoParagraphs(text) ==
    LET pieces == SplitParagraphs(text, 1, 1)
        trimmed == [k \in 1..Len(pieces) |-> trim(pieces[k])]
    IN SelectSeq(trimmed, LAMBDA p : Len(p) > 0)

\* The end (0-based, inclusive) of the match of /[.!?]\s+[A-Z]/ that starts at
\* 0-based position k of s; -1 when there is no match at k.
SentenceBreakEnd(s, k) ==
    IF k + 1 > Len(s) \/ ~IsSentenceEnd(s[k + 1]) THEN -1
    ELSE LET ws == RunLength(SubSeq(s, k + 2, Len(s)), {" ", "\n", "\t", "\r"})
         IN IF ws >= 1 /\ k + 2 + ws <= Len(s) /\ IsUpperCase(s[k + 2 + ws])
            THEN k + 1 + ws
            ELSE -1

\* overlapSection.match(/[.!?]\s+[A-Z]/g): the matched strings, left to right
RECURSIVE SentenceBreaks(_, _)
SentenceBreaks(s, k) ==
    IF k >= Len(s) THEN <<>>
    ELSE LET e == SentenceBreakEnd(s, k)
         IN IF e = -1 THEN SentenceBreaks(s, k + 1)
            ELSE <<Slice(s, k, e + 1)>> \o SentenceBreaks(s, e + 1)

getOverlapText_Whole(text, overlapChars) == text
getOverlapText(text, overlapChars) ==
    IF Len(text) <= overlapChars THEN text
    ELSE LET overlapSection ==   \* text.slice(-overlapChars): all of text for -0
                 IF overlapChars = 0 THEN text
                 ELSE Slice(text, Len(text) - overlapChars, Len(text))
             lastSentence == SentenceBreaks(overlapSection, 0)
         IN IF Len(lastSentence) > 0
            THEN LET lastIndex == lastIndexOf(overlapSection, lastSentence[Len(lastSentence)])
                 IN Slice(overlapSection, lastIndex + 2, Len(overlapSection))
            ELSE overlapSection

\* Math.ceil(n / CHARS_PER_TOKEN)
estimateTokenCount(n) == (n + CHARS_PER_TOKEN - 1) \div CHARS_PER_TOKEN

\* one TextChunk, as chunks.push({...}) builds it from currentChunk
TextChunk(currentChunk, chunkIndex, startChar) ==
    [text |-> trim(currentChunk),
     index |-> chunkIndex,
     tokenCount |-> estimateTokenCount(Len(currentChunk)),
     startChar |-> startChar,
     endChar |-> startChar + Len(currentChunk)]

\* chunkIndex++
NextChunkIndex_Stuck(chunkIndex) == chunkIndex
NextChunkIndex(chunkIndex) == chunkIndex + 1

\* the for loop of chunkText over paragraphs[i..], and the push of the last chunk
RECURSIVE ChunkLoop(_, _, _, _, _, _, _, _)
ChunkLoop(paragraphs, i, chunks, currentChunk, chunkIndex, startChar, chunkChars, overlapChars) ==
    IF i > Len(paragraphs)
    THEN IF Len(trim(currentChunk)) > 0
         THEN Append(chunks, TextChunk(currentChunk, chunkIndex, startChar))
         ELSE chunks
    ELSE LET paragraph == paragraphs[i]
             potentialChunk ==
                 currentChunk \o (IF Len(currentChunk) > 0 THEN <<"\n", "\n">> ELSE <<>>) \o paragraph
         IN IF Len(potentialChunk) > chunkChars /\ Len(currentChunk) > 0
            THEN LET overlapText == getOverlapText(currentChunk, overlapChars)
                 IN ChunkLoop(paragraphs, i + 1,
                              Append(chunks, TextChunk(currentChunk, chunkIndex, startChar)),
                              overlapText \o (IF Len(overlapText) > 0 THEN <<"\n", "\n">> ELSE <<>>) \o paragraph,
                              NextChunkIndex(chunkIndex),
                              startChar + Len(currentChunk) - Len(overlapText),
                              chunkChars, overlapChars)
            ELSE ChunkLoop(paragraphs, i + 1, chunks, potentialChunk, chunkIndex,
                           startChar, chunkChars, overlapChars)

chunkText(text, chunkSize, overlapSize) ==
    ChunkLoop(splitIntoParagraphs(text), 1, <<>>, <<>>, 0, 0,
              chunkSize * CHARS_PER_TOKEN, overlapSize * CHARS_PER_TOKEN)

-----------------------------------------------------------------------------
(* Embedder: EmbeddingService.generateBatchEmbeddings *)

\* The vector the provider computes for a text: it stands for the text it encodes.
Embedding(text) == [values |-> text]
null == [isNull |-> TRUE]

\* batchResults of the batch texts.slice(i, i + batchSize): failing holds the
\* 0-based indices of the texts whose generateEmbedding call rejects
BatchResults(texts, failing, i) ==
    [k \in 1..Min({batchSize, Len(texts) - i}) |->
        IF (i + k - 1) \in failing THEN null ELSE Embedding(texts[i + k])]

\* const successfulResults = batchResults.filter(result => result !== null)
SuccessfulResults(batchResults) == SelectSeq(batchResults, LAMBDA r : r # null)

RECURSIVE BatchLoop(_, _, _, _)
BatchLoop(texts, failing, i, embeddings) ==
    IF i >= Len(texts) THEN embeddings
    ELSE BatchLoop(texts, failing, i + batchSize,
                   embeddings \o SuccessfulResults(BatchResults(texts, failing, i)))

generateBatchEmbeddings(texts, failing) == BatchLoop(texts, failing, 0, <<>>)

-----------------------------------------------------------------------------
(* The texts of the model *)

\* texts handed to the Extractor's cleanText by pdf-parse
ParaA == <<"A", "a", ".">>
ParaB == <<"B", "b", ".", " ", "C", "c">>
ParaD == <<"D", "d", "d", "d", "d">>
RawTexts ==
    { <<" ", "\n">>,
      ParaA,
      ParaB \o <<"\r", "\n", "\r", "\n">> \o ParaD \o <<" ">>,
      ParaB \o <<"\n", "\n", "\n">> \o ParaD \o <<"\n", " ", "\n">> \o ParaB }

\* the texts the Extractor can hand to the Ingestor: pdfResult.text
ExtractedTexts == {cleanText(raw) : raw \in RawTexts}

\* the texts uploaded while calls run concurrently
ConcurrentTexts == {cleanText(ParaB \o <<"\r", "\n", "\r", "\n">> \o ParaD \o <<" ">>)}

\* chunkingService.chunkText(text, 512, 50) for every text a document can hold,
\* computed once
ChunkTable ==
    [text \in ExtractedTexts |-> chunkText(text, CHUNK_TOKENS, CHUNK_OVERLAP_TOKENS)]

\* the chunk list chunkText makes of a stored or extracted text
ChunksOfText(text) == ChunkTable[text]

-----------------------------------------------------------------------------
(* Store: the documents and document_chunks tables *)

\* the rows of document_chunks with documentid = d
ChunksOf(d) ==
    [r \in {x \in DOMAIN document_chunks : x.documentid = d} |-> document_chunks[r]]

\* DELETE FROM document_chunks WHERE documentid = d
DeleteChunksWhere(d) ==
    [r \in {x \in DOMAIN document_chunks : x.documentid # d} |-> document_chunks[r]]

\* document d holds exactly one row for every chunk of its text, and has a chunk
HasAllChunks(d) ==
    /\ d \in DOMAIN documents
    /\ ChunksOf(d) # EmptyBag
    /\ \A r \in DOMAIN ChunksOf(d) : document_chunks[r] = 1
    /\ {<<r.chunk_index, r.chunk_text>> : r \in DOMAIN ChunksOf(d)}
         = {<<c.index, c.text>> : c \in Range(ChunksOfText(documents[d]))}

\* FOREIGN KEY (documentid) REFERENCES documents(documentid)
ForeignKeyHolds_Unchecked(d) == TRUE
ForeignKeyHolds(d) == d \in DOMAIN documents

\* the row of INSERT INTO document_chunks (documentid, chunk_text, chunk_index,
\* token_count, embedding, metadata)
ChunkRow(documentId, chunk, embedding) ==
    [documentid |-> documentId,
     chunk_text |-> chunk.text,
     chunk_index |-> chunk.index,
     token_count |-> chunk.tokenCount,
     embedding |-> embedding.values]

-----------------------------------------------------------------------------
(* Ingestor: RAGService.processDocument, reprocessDocument, deleteDocument *)

IdleProc ==
    [pc |-> "idle", op |-> "none", documentId |-> 0, text |-> <<>>,
     chunks |-> <<>>, embeddings |-> <<>>, i |-> 0, outcome |-> "none",
     failed |-> {}, hadAll |-> FALSE]

AllIdle == \A q \in Procs : proc[q].pc = "idle"

\* The for loop that stores the chunks, standing at index i after an await:
\* it ends when i reaches chunks.length, throws a TypeError on
\* embeddings[i].values when embeddings[i] is undefined, and otherwise issues
\* the INSERT of chunk i.
StoreLoop(pr, i) ==
    IF i >= Len(pr.chunks)
    THEN [pr EXCEPT !.pc = "done", !.i = i, !.outcome = "ok"]
    ELSE IF i >= Len(pr.embeddings)
    THEN [pr EXCEPT !.pc = "done", !.i = i, !.outcome = "TypeError"]
    ELSE [pr EXCEPT !.pc = "insertChunk", !.i = i]

\* const texts = chunks.map(chunk => chunk.text)
ChunkTexts(chunks) == [k \in 1..Len(chunks) |-> chunks[k].text]

\* The provider calls of one ingestion can fail on any subset of its chunks.
FailingSets(chunks) == SUBSET (0..(Len(chunks) - 1))

\* chunkText, then await generateBatchEmbeddings(texts) with the provider
\* failing on the chunks of the indices in failing, then the store loop starts.
\* None of it reads or writes the tables, so it is taken in one step with the
\* statement before it.
ChunkAndEmbed(pr, failing) ==
    LET chunks == ChunksOfText(pr.text)
        embeddings == generateBatchEmbeddings(ChunkTexts(chunks), failing)
    IN StoreLoop([pr EXCEPT !.chunks = chunks, !.embeddings = embeddings,
                            !.failed = failing], 0)

\* processDocument: await pdfProcessor.processPDF(buffer) yielding text, await
\* INSERT INTO documents ... RETURNING documentid, then chunking and embedding
InsertDocument(p, text, failing, mayStart, maxDocs) ==
    /\ proc[p].pc = "idle"
    /\ mayStart
    /\ nextDocId <= maxDocs
    /\ documents' = documents @@ (nextDocId :> text)
    /\ nextDocId' = nextDocId + 1
    /\ proc' = [proc EXCEPT ![p] =
                  ChunkAndEmbed([IdleProc EXCEPT !.op = "process", !.documentId = nextDocId,
                                                 !.text = text], failing)]
    /\ UNCHANGED document_chunks
    /\ UNCHANGED <<queueVars, retry, embed, query, batch, job, requestQueue, call>>

\* await INSERT INTO document_chunks ... of chunk i, then the next turn of the loop
InsertChunk(p) ==
    /\ proc[p].pc = "insertChunk"
    /\ LET pr == proc[p]
           row == ChunkRow(pr.documentId, pr.chunks[pr.i + 1], pr.embeddings[pr.i + 1])
       IN IF ForeignKeyHolds(pr.documentId)
          THEN /\ document_chunks' = document_chunks (+) SetToBag({row})
               /\ proc' = [proc EXCEPT ![p] = StoreLoop(pr, pr.i + 1)]
          ELSE /\ proc' = [proc EXCEPT ![p] =
                             [pr EXCEPT !.pc = "done", !.outcome = "ForeignKeyViolation"]]
               /\ UNCHANGED document_chunks
    /\ UNCHANGED <<documents, nextDocId>>
    /\ UNCHANGED <<queueVars, retry, embed, query, batch, job, requestQueue, call>>

\* reprocessDocument: await SELECT documentcontent ... WHERE documentid = d
SelectDocument(p, d, mayStart) ==
    /\ proc[p].pc = "idle"
    /\ mayStart
    /\ proc' = [proc EXCEPT ![p] =
                  IF d \in DOMAIN documents
                  THEN [IdleProc EXCEPT !.pc = "deleteOldChunks", !.op = "reprocess",
                                        !.documentId = d, !.text = documents[d],
                                        !.hadAll = HasAllChunks(d)]
                  ELSE [IdleProc EXCEPT !.pc = "done", !.op = "reprocess",
                                        !.documentId = d, !.outcome = "NotFound"]]
    /\ UNCHANGED <<documents, nextDocId, document_chunks>>
    /\ UNCHANGED <<queueVars, retry, embed, query, batch, job, requestQueue, call>>

\* reprocessDocument: await DELETE FROM document_chunks WHERE documentid = d,
\* then chunking and embedding
DeleteOldChunks(p) ==
    /\ proc[p].pc = "deleteOldChunks"
    /\ document_chunks' = DeleteChunksWhere(proc[p].documentId)
    /\ \E failing \in FailingSets(ChunksOfText(proc[p].text)) :
           proc' = [proc EXCEPT ![p] = ChunkAndEmbed(proc[p], failing)]
    /\ UNCHANGED <<documents, nextDocId>>
    /\ UNCHANGED <<queueVars, retry, embed, query, batch, job, requestQueue, call>>

\* deleteDocument: await DELETE FROM document_chunks WHERE documentid = d
DeleteChunks(p, d, mayStart) ==
    /\ proc[p].pc = "idle"
    /\ mayStart
    /\ document_chunks' = DeleteChunksWhere(d)
    /\ proc' = [proc EXCEPT ![p] =
                  [IdleProc EXCEPT !.pc = "deleteDocumentRow", !.op = "delete",
                                   !.documentId = d]]
    /\ UNCHANGED <<documents, nextDocId>>
    /\ UNCHANGED <<queueVars, retry, embed, query, batch, job, requestQueue, call>>

\* deleteDocument: await DELETE FROM documents WHERE documentid = d, which
\* cascades to document_chunks (ON DELETE CASCADE)
DeleteDocumentRow(p) ==
    /\ proc[p].pc = "deleteDocumentRow"
    /\ documents' = [x \in DOMAIN documents \ {proc[p].documentId} |-> documents[x]]
    /\ document_chunks' = DeleteChunksWhere(proc[p].documentId)
    /\ proc' = [proc EXCEPT ![p] = [@ EXCEPT !.pc = "done", !.outcome = "ok"]]
    /\ UNCHANGED nextDocId
    /\ UNCHANGED <<queueVars, retry, embed, query, batch, job, requestQueue, call>>

\* the call returns or throws to the controller, which answers the request
Return(p) ==
    /\ proc[p].pc = "done"
    /\ proc' = [proc EXCEPT ![p] = IdleProc]
    /\ UNCHANGED <<documents, nextDocId, document_chunks>>
    /\ UNCHANGED <<queueVars, retry, embed, query, batch, job, requestQueue, call>>

\* a call is served by the first free request handler
FirstIdle(p) == p = Min({q \in Procs : proc[q].pc = "idle"})

-----------------------------------------------------------------------------
(* Model Client: RequestQueue, and retryWithBackoff as its callers use it *)

\* enqueue's priority argument: its default, and the one generateText passes
Priorities == {0, 1}

\* enqueue calls ever made: enough to fill the queue behind a running request
\* and be refused once
NumReqs == maxQueueSize + 2

\* Date.now() when the first request arrives: lastRequestTime is still 0, and
\* the process started long after the epoch
StartTime == requestInterval
EndTime == StartTime + Horizon

\* what the provider answers to one call: a result, a 5xx status, a 429
\* status, or a connection reset
Outcomes == {"ok", "e5xx", "e429", "reset"}

\* retryCondition of generateText and sendMessage: error.status >= 500
retryCondition(outcome) == outcome = "e5xx"

RECURSIVE Power(_, _)
Power(b, e) == IF e = 0 THEN 1 ELSE b * Power(b, e - 1)

\* calculateBackoffDelay(attempt, baseDelay, backoffFactor, maxDelay)
calculateBackoffDelay(attempt) == Min({baseDelay * Power(backoffFactor, attempt), maxDelay})

\* what one invocation of fn can do: the provider's outcomes, or a 4xx status
\* other than 429
FnOutcomes == Outcomes \cup {"e4xx"}

\* error.errorDetails holds a RetryInfo whose retryDelay parses to this many
\* ticks; -1 when it holds none
Hints == {-1, retryAfter}

\* defaultRetryCondition: status 429, status >= 500, code ECONNRESET
defaultRetryCondition(outcome) == outcome \in {"e429", "e5xx", "reset"}

\* the retryCondition of the configuration: the caller's, or the default
RetryConditions == {"default", "generateText"}
ConditionHolds(condition, outcome) ==
    IF condition = "generateText" THEN retryCondition(outcome)
    ELSE defaultRetryCondition(outcome)

\* if (attempt === maxRetries) break
IsLastAttempt_OneMore(attempt, maxRet) == attempt = maxRet + 1
IsLastAttempt(attempt, maxRet) == attempt = maxRet

\* let delay = calculateBackoffDelay(...); with a RetryInfo,
\* delay = Math.min(retrySeconds * 1000, maxDelay)
RetryDelay(attempt, hint) ==
    IF hint # -1 THEN Min({hint, maxDelay}) ELSE calculateBackoffDelay(attempt)

\* if (this.queue.length >= this.maxQueueSize) throw 'Request queue is full'
QueueIsFull_OffByOne(q) == Len(q) > maxQueueSize
QueueIsFull_Never(q) == FALSE
QueueIsFull(q) == Len(q) >= maxQueueSize

\* this.queue.findIndex(item => item.priority < priority), 0-based, -1 if none
insertIndex_BeforeEqual(q, rq, priority) ==
    LET hits == {k \in 1..Len(q) : rq[q[k]].priority <= priority}
    IN IF hits = {} THEN -1 ELSE Min(hits) - 1
insertIndex(q, rq, priority) ==
    LET hits == {k \in 1..Len(q) : rq[q[k]].priority < priority}
    IN IF hits = {} THEN -1 ELSE Min(hits) - 1

\* this.queue.push(request) or this.queue.splice(insertIndex, 0, request)
InsertRequest(q, rq, r, priority) ==
    LET at == insertIndex(q, rq, priority)
    IN IF at = -1
       THEN Append(q, r)
       ELSE SubSeq(q, 1, at) \o <<r>> \o SubSeq(q, at + 1, Len(q))

\* removeRequest(id): splice the request out of the queue if it is there
removeRequest_Keeps(q, r) == q
removeRequest(q, r) == SelectSeq(q, LAMBDA x : x # r)

\* timeSinceLastRequest < this.requestInterval
MustWait_OneShort(timeSinceLastRequest) == timeSinceLastRequest < requestInterval - 1
MustWait(timeSinceLastRequest) == timeSinceLastRequest < requestInterval

IdleWorker == [pc |-> "idle", request |-> 0, attempt |-> 0, wakeAt |-> 0]

\* the enqueue calls made before r whose promise is not settled yet
Unsettled(rq) == {x \in DOMAIN rq : rq[x].settled = "pending"}

\* the provider is called at the present time
RecordCall(h) == [h EXCEPT !.lastCall = now]

\* the provider's answer carries a RetryInfo: hint ticks from now
RecordHint(h, hint) == IF hint = -1 THEN h ELSE [h EXCEPT !.hintUntil = now + hint]

\* a request is released from the queue: was it released before the time the
\* latest RetryInfo asked for; the RetryInfo is then spent
RecordRelease(h) == [h EXCEPT !.hintUntil = -1, !.releasedBeforeHint = (now < h.hintUntil)]

\* processQueue: request = this.queue.shift(); this.lastRequestTime = Date.now();
\* await request.execute(), whose retryWithBackoff makes its first call of fn
Dispatch(q, rq, h) ==
    /\ queue' = Tail(q)
    /\ processing' = TRUE
    /\ lastRequestTime' = now
    /\ worker' = [pc |-> "calling", request |-> Head(q), attempt |-> 0, wakeAt |-> 0]
    /\ req' = [rq EXCEPT ![Head(q)].started = TRUE]
    /\ hist' = RecordCall(RecordRelease(h))

\* processQueue's while loop from its head, the queue being q and the requests
\* rq: it ends when the queue is empty, sleeps when the last dispatch is less
\* than requestInterval ago, and dispatches otherwise.  The RetryInfo of the
\* answer that brought the loop here, if any, is hint; the loop does not read it.
LoopHead(q, rq, hint) ==
    IF q = <<>>
    THEN /\ queue' = q
         /\ processing' = FALSE
         /\ worker' = IdleWorker
         /\ req' = rq
         /\ hist' = RecordHint(hist, hint)
         /\ UNCHANGED lastRequestTime
    ELSE IF MustWait(now - lastRequestTime)
    THEN /\ queue' = q
         /\ processing' = TRUE
         /\ worker' = [pc |-> "sleeping", request |-> 0, attempt |-> 0,
                       wakeAt |-> now + (requestInterval - (now - lastRequestTime))]
         /\ req' = rq
         /\ hist' = RecordHint(hist, hint)
         /\ UNCHANGED lastRequestTime
    ELSE Dispatch(q, rq, RecordHint(hist, hint))

\* request.resolve / request.reject as wrapped by enqueue: clearTimeout, then
\* settle the promise unless it is settled already
Settle(rq, r, how) ==
    [rq EXCEPT ![r].timer = -1,
               ![r].settled = IF @ = "pending" THEN how ELSE @]

\* enqueue(execute, priority, timeout), with the part of processQueue that
\* runs before its first await
Enqueue(priority) ==
    /\ nextReq <= NumReqs
    /\ nextReq' = nextReq + 1
    /\ LET r == nextReq
           new == [priority |-> priority, settled |-> "pending", timer |-> now + timeout,
                   started |-> FALSE]
       IN IF QueueIsFull(queue)
          THEN /\ req' = req @@ (r :> [new EXCEPT !.settled = "QueueFull", !.timer = -1])
               /\ UNCHANGED <<queue, processing, lastRequestTime, worker, hist>>
          ELSE LET rq == req @@ (r :> new)
                   q == InsertRequest(queue, rq, r, priority)
               IN IF processing
                  THEN /\ queue' = q
                       /\ req' = rq
                       /\ UNCHANGED <<processing, lastRequestTime, worker, hist>>
                  ELSE LoopHead(q, rq, -1)
    /\ UNCHANGED now
    /\ UNCHANGED <<storeVars, retry, embed, query, batch, job, requestQueue, call>>

\* processQueue resumes after await this.sleep(waitTime): it shifts the head
\* of the queue, and leaves the loop if there is none
Wake ==
    /\ worker.pc = "sleeping"
    /\ now >= worker.wakeAt
    /\ IF queue = <<>>
       THEN /\ processing' = FALSE
            /\ worker' = IdleWorker
            /\ UNCHANGED <<queue, lastRequestTime, req, hist>>
       ELSE Dispatch(queue, req, hist)
    /\ UNCHANGED <<now, nextReq>>
    /\ UNCHANGED <<storeVars, retry, embed, query, batch, job, requestQueue, call>>

\* the provider answers the call in flight: retryWithBackoff returns the
\* result, sleeps before a retry, or throws; on return or throw processQueue
\* settles the request and goes round its loop
ProviderAnswers(outcome, hint) ==
    /\ worker.pc = "calling"
    /\ outcome = "ok" => hint = -1
    /\ IF outcome = "ok"
       THEN LoopHead(queue, Settle(req, worker.request, "resolved"), -1)
       ELSE IF ~IsLastAttempt(worker.attempt, maxRetries) /\ retryCondition(outcome)
       THEN /\ worker' = [worker EXCEPT !.pc = "backoff",
                                        !.wakeAt = now + RetryDelay(worker.attempt, hint)]
            /\ hist' = RecordHint(hist, hint)
            /\ UNCHANGED <<queue, processing, lastRequestTime, req>>
       ELSE LoopHead(queue, Settle(req, worker.request, "rejected"), hint)
    /\ UNCHANGED <<now, nextReq>>
    /\ UNCHANGED <<storeVars, retry, embed, query, batch, job, requestQueue, call>>

\* retryWithBackoff resumes after await sleep(delay) and calls fn again
Retry ==
    /\ worker.pc = "backoff"
    /\ now >= worker.wakeAt
    /\ worker' = [worker EXCEPT !.pc = "calling", !.attempt = @ + 1]
    /\ hist' = RecordCall(hist)
    /\ UNCHANGED <<queue, processing, lastRequestTime, now, req, nextReq>>
    /\ UNCHANGED <<storeVars, retry, embed, query, batch, job, requestQueue, call>>

\* the timer set by enqueue fires: this.removeRequest(id); reject('Request timeout')
TimeoutFires(r) ==
    /\ r \in DOMAIN req
    /\ req[r].timer # -1
    /\ now >= req[r].timer
    /\ queue' = removeRequest(queue, r)
    /\ req' = [req EXCEPT ![r].timer = -1,
                          ![r].settled = IF @ = "pending" THEN "Timeout" ELSE @]
    /\ UNCHANGED <<processing, lastRequestTime, now, nextReq, worker, hist>>
    /\ UNCHANGED <<storeVars, retry, embed, query, batch, job, requestQueue, call>>

\* time passes
Tick ==
    /\ now < EndTime
    /\ now' = now + 1
    /\ UNCHANGED <<queue, processing, lastRequestTime, req, nextReq, worker, hist>>
    /\ UNCHANGED <<storeVars, retry, embed, query, batch, job, requestQueue, call>>

-----------------------------------------------------------------------------
(* retryWithBackoff, one run at a time *)

IdleRetry ==
    [pc |-> "idle", maxRetries |-> 0, condition |-> "default", attempt |-> 0,
     outcomes |-> <<>>, delay |-> 0, of |-> 0]

\* retryWithBackoff(fn, {maxRetries, retryCondition}) is called: attempt = 0,
\* and fn is invoked
RetryStart(maxRet, condition) ==
    /\ retry.pc = "idle"
    /\ retry' = [IdleRetry EXCEPT !.pc = "calling", !.maxRetries = maxRet,
                                  !.condition = condition]
    /\ UNCHANGED <<storeVars, queueVars, embed, query, batch, job, requestQueue, call>>

\* await fn() settles: the result is returned; or the error is kept as
\* lastError, and the loop breaks and throws it, or sleeps before the next
\* attempt.  The field of is the number of the invocation whose result or
\* error leaves the function.
FnSettles(outcome, hint) ==
    /\ retry.pc = "calling"
    /\ LET outcomes == Append(retry.outcomes, [kind |-> outcome, hint |-> hint])
       IN retry' =
            IF outcome = "ok"
            THEN [retry EXCEPT !.pc = "returned", !.outcomes = outcomes,
                               !.of = Len(outcomes)]
            ELSE IF \/ IsLastAttempt(retry.attempt, retry.maxRetries)
                    \/ ~ConditionHolds(retry.condition, outcome)
            THEN [retry EXCEPT !.pc = "thrown", !.outcomes = outcomes,
                               !.of = Len(outcomes)]
            ELSE [retry EXCEPT !.pc = "sleeping", !.outcomes = outcomes,
                               !.delay = RetryDelay(retry.attempt, hint)]
    /\ UNCHANGED <<storeVars, queueVars, embed, query, batch, job, requestQueue, call>>

\* await sleep(delay) ends: attempt++, and fn is invoked again
SleepEnds ==
    /\ retry.pc = "sleeping"
    /\ retry' = [retry EXCEPT !.pc = "calling", !.attempt = @ + 1]
    /\ UNCHANGED <<storeVars, queueVars, embed, query, batch, job, requestQueue, call>>

\* the caller has the result or the error
RetryReturns ==
    /\ retry.pc \in {"returned", "thrown"}
    /\ retry' = IdleRetry
    /\ UNCHANGED <<storeVars, queueVars, embed, query, batch, job, requestQueue, call>>

-----------------------------------------------------------------------------
(* Embedder: the provider calls of generateBatchEmbeddings and of a query *)

\* the texts of an ingestion of n chunks
TextsOf(n) == [k \in 1..n |-> [j \in 1..k |-> "x"]]

\* the 0-based indices of the batch texts.slice(i, i + batchSize)
BatchIndices(texts, i) == {k \in 0..(Len(texts) - 1) : i <= k /\ k < i + batchSize}

IdleEmbed ==
    [pc |-> "idle", texts |-> <<>>, i |-> 0, inFlight |-> {}, failed |-> {},
     embeddings |-> <<>>, queryInFlight |-> FALSE]

\* generateBatchEmbeddings(texts): the first batch's generateEmbedding calls
\* are made, each up to its await model.embedContent(text)
BatchStart(n) ==
    /\ embed.pc = "idle"
    /\ LET texts == TextsOf(n)
       IN embed' = [embed EXCEPT !.pc = "batch", !.texts = texts, !.i = 0,
                                 !.inFlight = BatchIndices(texts, 0),
                                 !.failed = {}, !.embeddings = <<>>]
    /\ UNCHANGED <<storeVars, queueVars, retry, query, batch, job, requestQueue, call>>

\* model.embedContent of text k settles; when it is the last of its batch,
\* Promise.all resolves, the successful results are pushed, and the loop
\* sleeps before the next batch or ends
EmbedSettles(k, ok) ==
    /\ embed.pc = "batch"
    /\ k \in embed.inFlight
    /\ LET inFlight == embed.inFlight \ {k}
           failed == IF ok THEN embed.failed ELSE embed.failed \cup {k}
       IN embed' =
            IF inFlight # {}
            THEN [embed EXCEPT !.inFlight = inFlight, !.failed = failed]
            ELSE [embed EXCEPT
                    !.inFlight = {},
                    !.failed = failed,
                    !.embeddings = @ \o SuccessfulResults(BatchResults(embed.texts, failed, embed.i)),
                    !.pc = IF embed.i + batchSize < Len(embed.texts) THEN "delay" ELSE "done"]
    /\ UNCHANGED <<storeVars, queueVars, retry, query, batch, job, requestQueue, call>>

\* await this.delay(500) ends: i += batchSize, and the next batch's calls are made
DelayEnds ==
    /\ embed.pc = "delay"
    /\ embed' = [embed EXCEPT !.pc = "batch", !.i = @ + batchSize,
                              !.inFlight = BatchIndices(embed.texts, embed.i + batchSize)]
    /\ UNCHANGED <<storeVars, queueVars, retry, query, batch, job, requestQueue, call>>

\* return embeddings
BatchReturns ==
    /\ embed.pc = "done"
    /\ embed' = [IdleEmbed EXCEPT !.queryInFlight = embed.queryInFlight]
    /\ UNCHANGED <<storeVars, queueVars, retry, query, batch, job, requestQueue, call>>

\* retrieveRelevantChunks: await embeddingService.generateEmbedding(query),
\* up to its await model.embedContent(text)
QueryEmbedStarts ==
    /\ ~embed.queryInFlight
    /\ embed' = [embed EXCEPT !.queryInFlight = TRUE]
    /\ UNCHANGED <<storeVars, queueVars, retry, query, batch, job, requestQueue, call>>

\* model.embedContent of the query settles
QueryEmbedSettles ==
    /\ embed.queryInFlight
    /\ embed' = [embed EXCEPT !.queryInFlight = FALSE]
    /\ UNCHANGED <<storeVars, queueVars, retry, query, batch, job, requestQueue, call>>

-----------------------------------------------------------------------------
(* Retriever and Answerer: RAGService.retrieveRelevantChunks, answerQuestion *)

\* the numbers of an embedding: the vector its values stand for
VectorOf(values) ==
    CASE values = <<"p">> -> <<3, 4>>
      [] values = <<"q">> -> <<4, 3>>
      [] values = <<"r">> -> <<5, 0>>
      [] values = <<"s">> -> <<-3, 4>>
      [] OTHER -> <<0, 0>>

\* the chunk texts stored, and the questions asked
StoredTexts == {<<"p">>, <<"q">>, <<"r">>, <<"s">>}
Questions == {<<"p">>, <<"z">>}

\* a similarity or a confidence is counted in hundredths: One is 1.0
One == 100

\* Math.sqrt of a square number
sqrt(n) == CHOOSE r \in 0..n : r * r = n

RECURSIVE Sum(_)
Sum(s) == IF s = <<>> THEN 0 ELSE Head(s) + Sum(Tail(s))

\* embeddingService.cosineSimilarity: dotProduct / (sqrt(norm1) * sqrt(norm2)),
\* which is NaN when a vector has norm 0
cosineSimilarity(embedding1, embedding2) ==
    LET v1 == VectorOf(embedding1)
        v2 == VectorOf(embedding2)
        dotProduct == Sum([i \in 1..Len(v1) |-> v1[i] * v2[i]])
        norm1 == Sum([i \in 1..Len(v1) |-> v1[i] * v1[i]])
        norm2 == Sum([i \in 1..Len(v1) |-> v2[i] * v2[i]])
        divisor == sqrt(norm1) * sqrt(norm2)
    IN IF divisor = 0 THEN [isNaN |-> TRUE, value |-> 0]
       ELSE [isNaN |-> FALSE, value |-> (One * dotProduct) \div divisor]

\* similarity >= this.MIN_RELEVANCE_SCORE: false for NaN
IsRelevant_Any(similarity) == ~similarity.isNaN
IsRelevant(similarity) == ~similarity.isNaN /\ similarity.value >= MIN_RELEVANCE_SCORE

\* the rows of SELECT ... FROM document_chunks dc JOIN documents d ... WHERE
\* dc.embedding IS NOT NULL, which has no ORDER BY: in any order
JoinedRows ==
    {rk \in (DOMAIN document_chunks) \X (1..MaxRows) :
        /\ rk[1].documentid \in DOMAIN documents
        /\ rk[2] <= document_chunks[rk[1]]}
ReadOrders ==
    LET n == Cardinality(JoinedRows)
    IN {[i \in 1..n |-> f[i][1]] :
          f \in {g \in [1..n -> JoinedRows] : \A i, j \in 1..n : i # j => g[i] # g[j]}}

\* the RetrievalResult pushed for a row
RetrievalResult(row, similarity) ==
    [documentId |-> row.documentid,
     chunkText |-> row.chunk_text,
     chunkIndex |-> row.chunk_index,
     relevanceScore |-> similarity.value]

\* the comparator of results.sort
compare_Ascending(a, b) == a.relevanceScore - b.relevanceScore
compare(a, b) == b.relevanceScore - a.relevanceScore

\* Array.prototype.sort, which is stable: x goes before the first element that
\* the comparator puts after it
RECURSIVE Place(_, _)
Place(x, sorted) ==
    IF sorted = <<>> THEN <<x>>
    ELSE IF compare(Head(sorted), x) > 0 THEN <<x>> \o sorted
    ELSE <<Head(sorted)>> \o Place(x, Tail(sorted))

RECURSIVE sort(_)
sort(results) ==
    IF results = <<>> THEN <<>>
    ELSE Place(results[Len(results)], sort(SubSeq(results, 1, Len(results) - 1)))

\* retrieveRelevantChunks(query, topK) on the rows as the SELECT hands them over
retrieveRelevantChunks(queryText, rows, topK) ==
    LET queryEmbedding == Embedding(queryText)
        scored == [i \in 1..Len(rows) |->
                     [row |-> rows[i],
                      similarity |-> cosineSimilarity(queryEmbedding.values, rows[i].embedding)]]
        kept == SelectSeq(scored, LAMBDA s : IsRelevant(s.similarity))
        results == [i \in 1..Len(kept) |-> RetrievalResult(kept[i].row, kept[i].similarity)]
        sorted == sort(results)
    IN Slice(sorted, 0, Min({topK, Len(sorted)}))

\* the texts the generator may hand back
GeneratorTexts ==
    { <<"a", "[", "S", "O", "U", "R", "C", "E", " ", "1", "]">>,
      <<"[", "S", "O", "U", "R", "C", "E", " ", "1", "2", "]", "b">>,
      <<"[", "S", "O", "U", "R", "C", "E", " ", "]">>,
      <<"[", "S", "O", "U", "R", "C", "E", " ", "1", ":", " ", "t", "]">>,
      <<"a">>,
      <<>> }

IsDigit(c) == c \in {"0", "1", "2", "3", "4", "5", "6", "7", "8", "9"}

\* /\[SOURCE \d+\]/.test(answer)
hasCitations(answer) ==
    \E k \in 0..Len(answer) :
        /\ OccursAt(answer, <<"[", "S", "O", "U", "R", "C", "E", " ">>, k)
        /\ \E m \in 1..Len(answer) :
              /\ k + 8 + m + 1 <= Len(answer)
              /\ \A j \in 1..m : IsDigit(answer[k + 8 + j])
              /\ answer[k + 8 + m + 1] = "]"

\* '\n\n(Note: This answer is based on the uploaded onboarding documents.)'
Note ==
    <<"\n", "\n", "(", "N", "o", "t", "e", ":", " ", "T", "h", "i", "s", " ",
      "a", "n", "s", "w", "e", "r", " ", "i", "s", " ", "b", "a", "s", "e", "d", " ",
      "o", "n", " ", "t", "h", "e", " ", "u", "p", "l", "o", "a", "d", "e", "d", " ",
      "o", "n", "b", "o", "a", "r", "d", "i", "n", "g", " ",
      "d", "o", "c", "u", "m", "e", "n", "t", "s", ".", ")">>

\* the first words of the fixed answer given when nothing relevant is found
NothingFound == <<"I", " ", "c", "o", "u", "l", "d", "n", "'", "t">>

\* if (!hasCitations && relevantChunks.length > 0) answer += note
NeedsNote_Cited(cited, relevantChunks) == cited /\ Len(relevantChunks) > 0
NeedsNote(cited, relevantChunks) == ~cited /\ Len(relevantChunks) > 0

\* Math.min(confidence, 1.0), a confidence being the fraction num / den
MinOne_Uncapped(confidence) == confidence
MinOne(confidence) ==
    IF confidence.num > One * confidence.den THEN [num |-> One, den |-> 1]
    ELSE confidence

\* avgRelevance * 0.5 + topRelevance * 0.5, times 1.1 when cited, capped
Confidence(relevantChunks, cited) ==
    LET n == Len(relevantChunks)
        sum == Sum([i \in 1..n |-> relevantChunks[i].relevanceScore])
        topRelevance == relevantChunks[1].relevanceScore
        half == [num |-> sum + n * topRelevance, den |-> 2 * n]
        boosted == IF cited THEN [num |-> 11 * half.num, den |-> 10 * half.den]
                   ELSE half
    IN MinOne(boosted)

IdleQuery ==
    [pc |-> "idle", caller |-> "none", question |-> <<>>, topK |-> 0, sources |-> <<>>,
     text |-> <<>>, answer |-> <<>>, confidence |-> [num |-> 0, den |-> 1]]

\* retrieveRelevantChunks(question, topK) called on its own: the query is
\* embedded, the rows are read, scored, sorted and cut
RetrieveChunks(question, topK) ==
    /\ query.pc = "idle"
    /\ \E rows \in ReadOrders :
          query' = [IdleQuery EXCEPT
                      !.pc = "retrieved", !.caller = "retrieveRelevantChunks",
                      !.question = question, !.topK = topK,
                      !.sources = retrieveRelevantChunks(question, rows, topK)]
    /\ UNCHANGED <<storeVars, queueVars, retry, embed, batch, job, requestQueue, call>>

\* generateEmbedding(query) or db.query rejects: the error is thrown on
RetrieveFails ==
    /\ query.pc = "idle"
    /\ query' = [IdleQuery EXCEPT !.pc = "thrown"]
    /\ UNCHANGED <<storeVars, queueVars, retry, embed, batch, job, requestQueue, call>>

\* answerQuestion(question): retrieveRelevantChunks(question) with the default
\* topK; with no relevant chunk the fixed answer is returned, otherwise the
\* prompt is sent to the generator
AskQuestion(question) ==
    /\ query.pc = "idle"
    /\ \E rows \in ReadOrders :
          LET relevantChunks == retrieveRelevantChunks(question, rows, TOP_K)
          IN query' =
               IF Len(relevantChunks) = 0
               THEN [IdleQuery EXCEPT
                       !.pc = "answered", !.caller = "answerQuestion",
                       !.question = question, !.topK = TOP_K,
                       !.answer = NothingFound]
               ELSE [IdleQuery EXCEPT
                       !.pc = "generating", !.caller = "answerQuestion",
                       !.question = question, !.topK = TOP_K,
                       !.sources = relevantChunks]
    /\ UNCHANGED <<storeVars, queueVars, retry, embed, batch, job, requestQueue, call>>

\* model.generateContent resolves with text: citations are looked for, the note
\* is appended, the confidence is computed, and the response is returned
GeneratorAnswers(text) ==
    /\ query.pc = "generating"
    /\ LET cited == hasCitations(text)
       IN query' = [query EXCEPT
                      !.pc = "answered",
                      !.text = text,
                      !.answer = IF NeedsNote(cited, query.sources) THEN text \o Note
                                 ELSE text,
                      !.confidence = Confidence(query.sources, cited)]
    /\ UNCHANGED <<storeVars, queueVars, retry, embed, batch, job, requestQueue, call>>

\* model.generateContent rejects: answerQuestion throws
GeneratorFails ==
    /\ query.pc = "generating"
    /\ query' = [IdleQuery EXCEPT !.pc = "thrown"]
    /\ UNCHANGED <<storeVars, queueVars, retry, embed, batch, job, requestQueue, call>>

\* the caller has the result or the error
QueryReturns ==
    /\ query.pc \in {"retrieved", "answered", "thrown"}
    /\ query' = IdleQuery
    /\ UNCHANGED <<storeVars, queueVars, retry, embed, batch, job, requestQueue, call>>

-----------------------------------------------------------------------------
(* RAGService.reprocessAllDocuments *)

\* the handler that serves reprocessAllDocuments; the other one serves the
\* calls made meanwhile
BatchProc == 1

OtherProc == 2

IdleBatch == [pc |-> "idle", docs |-> <<>>, k |-> 0, processed |-> 0, errors |-> 0,
              outcomes |-> <<>>]

\* SELECT documentid, documenttitle FROM documents ORDER BY documentid
RECURSIVE Ascending(_)
Ascending(S) == IF S = {} THEN <<>> ELSE <<Min(S)>> \o Ascending(S \ {Min(S)})

\* try { await this.reprocessDocument(...); processed++ } catch { errors++ },
\* and the loop moves on; outcomes keeps what each call did (not program state)
Counted_ErrorsLost(b, outcome) ==
    [b EXCEPT !.k = @ + 1,
              !.processed = IF outcome = "ok" THEN @ + 1 ELSE @,
              !.outcomes = Append(@, outcome)]
Counted(b, outcome) ==
    [b EXCEPT !.k = @ + 1,
              !.processed = IF outcome = "ok" THEN @ + 1 ELSE @,
              !.errors = IF outcome = "ok" THEN @ ELSE @ + 1,
              !.outcomes = Append(@, outcome)]

\* reprocessAllDocuments: await db.query(SELECT ...), processed = 0, errors = 0
BatchSelect ==
    /\ batch.pc = "idle"
    /\ proc[BatchProc].pc = "idle"
    /\ batch' = [IdleBatch EXCEPT !.pc = "loop", !.docs = Ascending(DOMAIN documents)]
    /\ UNCHANGED <<storeVars, queueVars, retry, embed, query, job, requestQueue, call>>

\* for (const doc of docsResult.rows): this.reprocessDocument(doc.documentid)
\* is called, up to its first await
BatchReprocess ==
    /\ batch.pc = "loop"
    /\ batch.k < Len(batch.docs)
    /\ SelectDocument(BatchProc, batch.docs[batch.k + 1], TRUE)

\* reprocessDocument has returned or thrown: the call is counted
BatchCount ==
    /\ batch.pc = "loop"
    /\ proc[BatchProc].pc = "done"
    /\ batch' = Counted(batch, proc[BatchProc].outcome)
    /\ proc' = [proc EXCEPT ![BatchProc] = IdleProc]
    /\ UNCHANGED <<documents, nextDocId, document_chunks>>
    /\ UNCHANGED <<queueVars, retry, embed, query, job, requestQueue, call>>

\* the loop is over: return { processed, errors }
BatchReturn ==
    /\ batch.pc = "loop"
    /\ proc[BatchProc].pc = "idle"
    /\ batch.k = Len(batch.docs)
    /\ batch' = [batch EXCEPT !.pc = "returned"]
    /\ UNCHANGED <<storeVars, queueVars, retry, embed, query, job, requestQueue, call>>

\* the controller has answered with the counts
BatchEnd ==
    /\ batch.pc = "returned"
    /\ batch' = IdleBatch
    /\ UNCHANGED <<storeVars, queueVars, retry, embed, query, job, requestQueue, call>>

-----------------------------------------------------------------------------
(* The document-ingestion queue and its worker *)

\* the documents ingestion jobs are added for: approved ones
JobDocs == 1..MaxJobs

\* what makes a call fail for a while: S3 unreachable, or the database
\* unreachable
FaultKinds == {"s3", "db"}

\* initializeWorkers() has run: the queue holds no job, every document is
\* approved, and nothing is failing
NoJobs ==
    [status |-> [d \in JobDocs |-> "approved"], jobs |-> <<>>,
     fault |-> "none", faultsLeft |-> MaxFaults]

NewJob(hasText) ==
    [state |-> "waiting", attemptsMade |-> 0, stage |-> "none", hasText |-> hasText,
     error |-> "none", firstError |-> "none", afterCause |-> FALSE]

ActiveJobs == {d \in DOMAIN job.jobs : job.jobs[d].state = "active"}

\* a cause of transient failures appears, and goes
FaultAppears(kind) ==
    /\ job.fault = "none"
    /\ job.faultsLeft > 0
    /\ job' = [job EXCEPT !.fault = kind, !.faultsLeft = @ - 1]
    /\ UNCHANGED <<storeVars, queueVars, retry, embed, query, batch, requestQueue, call>>

FaultClears ==
    /\ job.fault # "none"
    /\ job' = [job EXCEPT !.fault = "none"]
    /\ UNCHANGED <<storeVars, queueVars, retry, embed, query, batch, requestQueue, call>>

\* addDocumentIngestionJob(documentId): jobId 'ingest-<documentId>', so a
\* document has one job.  hasText: text can be extracted from its PDF.
JobAdded(d, hasText) ==
    /\ d \notin DOMAIN job.jobs
    /\ job' = [job EXCEPT !.jobs = [x \in DOMAIN @ \cup {d} |->
                                      IF x = d THEN NewJob(hasText) ELSE @[x]]]
    /\ UNCHANGED <<storeVars, queueVars, retry, embed, query, batch, requestQueue, call>>

\* the worker takes a job that waits, or whose backoff delay has passed, and
\* calls processDocumentIngestion(job).  afterCause: the attempt is a retry
\* begun when every cause of failure is gone for good.
JobTaken(d) ==
    /\ d \in DOMAIN job.jobs
    /\ job.jobs[d].state \in {"waiting", "delayed"}
    /\ Cardinality(ActiveJobs) < concurrency
    /\ job' = [job EXCEPT
                 !.jobs[d].state = "active",
                 !.jobs[d].stage = "select",
                 !.jobs[d].afterCause =
                     /\ job.jobs[d].attemptsMade >= 1
                     /\ job.fault = "none"
                     /\ job.faultsLeft = 0]
    /\ UNCHANGED <<storeVars, queueVars, retry, embed, query, batch, requestQueue, call>>

\* an await of the try block throws: control goes to the catch block
Throws(d, error) ==
    [job EXCEPT !.jobs[d].stage = "catch", !.jobs[d].error = error]

\* SELECT * FROM documents WHERE id = $1, and the check of the status
JobSelects(d) ==
    /\ d \in ActiveJobs
    /\ job.jobs[d].stage = "select"
    /\ job' = IF job.fault = "db" THEN Throws(d, "transient")
              ELSE IF job.status[d] # "approved" THEN Throws(d, "not approved")
              ELSE [job EXCEPT !.jobs[d].stage = "download"]
    /\ UNCHANGED <<storeVars, queueVars, retry, embed, query, batch, requestQueue, call>>

\* S3Service.downloadFile(document.s3_key)
JobDownloads(d) ==
    /\ d \in ActiveJobs
    /\ job.jobs[d].stage = "download"
    /\ job' = IF job.fault = "s3" THEN Throws(d, "transient")
              ELSE [job EXCEPT !.jobs[d].stage = "extract"]
    /\ UNCHANGED <<storeVars, queueVars, retry, embed, query, batch, requestQueue, call>>

\* extractText, chunkPages and embedBatch: no text, no chunk, or a count of
\* embeddings other than that of the chunks, throws
JobExtracts(d) ==
    /\ d \in ActiveJobs
    /\ job.jobs[d].stage = "extract"
    /\ job' = IF ~job.jobs[d].hasText THEN Throws(d, "no text")
              ELSE [job EXCEPT !.jobs[d].stage = "index"]
    /\ UNCHANGED <<storeVars, queueVars, retry, embed, query, batch, requestQueue, call>>

\* IndexingService.indexChunks(...), then the result is returned and the job
\* is completed
JobIndexes(d) ==
    /\ d \in ActiveJobs
    /\ job.jobs[d].stage = "index"
    /\ job' = IF job.fault = "db" THEN Throws(d, "transient")
              ELSE [job EXCEPT !.jobs[d].state = "completed",
                               !.jobs[d].stage = "none",
                               !.jobs[d].attemptsMade = @ + 1]
    /\ UNCHANGED <<storeVars, queueVars, retry, embed, query, batch, requestQueue, call>>

\* UPDATE documents SET status = 'rejected' WHERE id = $2 in the catch block;
\* an error of the UPDATE itself is logged and dropped
StatusAfterCatch(status, d, fault) ==
    IF fault = "db" THEN status ELSE [status EXCEPT ![d] = "rejected"]

\* the attempt has failed: the job waits for its backoff delay while attempts
\* are left, and is failed otherwise
StateAfterFailure(attemptsMade) ==
    IF attemptsMade < attempts THEN "delayed" ELSE "failed"

\* the catch block: the UPDATE, then throw error; the attempt has failed
JobCatches(d) ==
    /\ d \in ActiveJobs
    /\ job.jobs[d].stage = "catch"
    /\ job' = [job EXCEPT
                 !.status = StatusAfterCatch(@, d, job.fault),
                 !.jobs[d].state = StateAfterFailure(job.jobs[d].attemptsMade + 1),
                 !.jobs[d].stage = "none",
                 !.jobs[d].attemptsMade = @ + 1,
                 !.jobs[d].firstError = IF job.jobs[d].attemptsMade = 0
                                        THEN job.jobs[d].error ELSE @]
    /\ UNCHANGED <<storeVars, queueVars, retry, embed, query, batch, requestQueue, call>>

-----------------------------------------------------------------------------
(* RequestQueue with enqueue, processQueue, the timeouts and clear *)

\* a new RequestQueue(): no request queued, processing false, lastRequestTime
\* 0 (started false), no processQueue invocation running.  requests holds every request enqueue accepted, with
\* the state of its promise and of its timer; refused counts the enqueue
\* calls that threw 'Request queue is full'.
NewRequestQueue ==
    [queue |-> <<>>, processing |-> FALSE, started |-> FALSE,
     requests |-> <<>>, loops |-> <<>>, refused |-> 0]

\* the invocations of processQueue that are in their loop, and the requests
\* whose execute() has been called and has not settled
Loops == DOMAIN requestQueue.loops
Executing == {l \in Loops : requestQueue.loops[l].pc = "executing"}

\* a promise settles once: resolve and reject do nothing to a settled one
SettlePromise(requests, r, how) ==
    [requests EXCEPT ![r].settled = IF @ = "pending" THEN how ELSE @]

\* request.resolve / request.reject as enqueue wraps them:
\* clearTimeout(timeoutId), then the original
WrappedSettle(requests, r, how) ==
    [SettlePromise(requests, r, how) EXCEPT ![r].timer = FALSE]

\* if (this.processing || this.queue.length === 0) return
MayProcess_Unguarded(isProcessing, q) == q # <<>>
MayProcess(isProcessing, q) == ~isProcessing /\ q # <<>>

\* this.processing = false, after the loop
ProcessingAfterLoop_Kept == TRUE
ProcessingAfterLoop == FALSE

\* const request = this.queue.shift(); if (!request) break; or the loop's
\* condition fails: the invocation l ends.  Otherwise it calls
\* request.execute() and awaits it.
ShiftAndExecute(state, l) ==
    IF state.queue = <<>>
    THEN [state EXCEPT !.processing = ProcessingAfterLoop,
                       !.loops = [x \in DOMAIN @ \ {l} |-> @[x]]]
    ELSE [state EXCEPT !.queue = Tail(@),
                       !.started = TRUE,
                       !.loops = [x \in DOMAIN @ \cup {l} |->
                                    IF x = l
                                    THEN [pc |-> "executing", request |-> Head(state.queue)]
                                    ELSE @[x]]]

\* timeSinceLastRequest < this.requestInterval can hold only once
\* lastRequestTime has been set
MaySleep(state, sleeps) == sleeps => state.started

\* one pass of while (this.queue.length > 0) up to its first await: the
\* sleep of the rate limit when the last request began less than
\* requestInterval ago (sleeps), or the operation of the request shifted
LoopPass(state, l, sleeps) ==
    IF state.queue = <<>>
    THEN [state EXCEPT !.processing = ProcessingAfterLoop,
                       !.loops = [x \in DOMAIN @ \ {l} |-> @[x]]]
    ELSE IF sleeps
    THEN [state EXCEPT !.loops = [x \in DOMAIN @ \cup {l} |->
                                    IF x = l THEN [pc |-> "sleeping", request |-> 0]
                                    ELSE @[x]]]
    ELSE ShiftAndExecute(state, l)

\* enqueue(execute, priority, timeout) with room in the queue: the request is
\* inserted by priority, its timer is set, and processQueue() is called, which
\* returns at once or runs up to its first await
enqueue(priority, sleeps) ==
    /\ Cardinality(DOMAIN requestQueue.requests) + requestQueue.refused < MaxEnqueues
    /\ ~QueueIsFull(requestQueue.queue)
    /\ MaySleep(requestQueue, sleeps)
    /\ LET r == Cardinality(DOMAIN requestQueue.requests) + 1
           requests == [x \in DOMAIN requestQueue.requests \cup {r} |->
                          IF x = r
                          THEN [priority |-> priority, settled |-> "pending", timer |-> TRUE]
                          ELSE requestQueue.requests[x]]
           queued == [requestQueue EXCEPT
                        !.requests = requests,
                        !.queue = InsertRequest(@, requests, r, priority)]
       IN requestQueue' =
            IF MayProcess(queued.processing, queued.queue)
            THEN LoopPass([queued EXCEPT !.processing = TRUE], r, sleeps)
            ELSE queued
    /\ UNCHANGED <<storeVars, queueVars, retry, embed, query, batch, job, call>>

\* enqueue with the queue full: throws, and no request is made
enqueueFull ==
    /\ Cardinality(DOMAIN requestQueue.requests) + requestQueue.refused < MaxEnqueues
    /\ QueueIsFull(requestQueue.queue)
    /\ requestQueue' = [requestQueue EXCEPT !.refused = @ + 1]
    /\ UNCHANGED <<storeVars, queueVars, retry, embed, query, batch, job, call>>

\* await this.sleep(waitTime) resolves in the invocation l
SleepResolves(l) ==
    /\ l \in Loops
    /\ requestQueue.loops[l].pc = "sleeping"
    /\ requestQueue' = ShiftAndExecute(requestQueue, l)
    /\ UNCHANGED <<storeVars, queueVars, retry, embed, query, batch, job, call>>

\* await request.execute() settles in the invocation l: request.resolve(result)
\* or, in the catch, request.reject(error); then the loop goes on
ExecuteSettles(l, ok, sleeps) ==
    /\ l \in Executing
    /\ MaySleep(requestQueue, sleeps)
    /\ LET r == requestQueue.loops[l].request
           settled == [requestQueue EXCEPT
                         !.requests = WrappedSettle(@, r, IF ok THEN "resolved" ELSE "rejected")]
       IN requestQueue' = LoopPass(settled, l, sleeps)
    /\ UNCHANGED <<storeVars, queueVars, retry, embed, query, batch, job, call>>

\* the timer of the request r fires: this.removeRequest(id);
\* reject(new Error('Request timeout')), the promise's own reject
TimerFires(r) ==
    /\ r \in DOMAIN requestQueue.requests
    /\ requestQueue.requests[r].timer
    /\ requestQueue' =
         [requestQueue EXCEPT
            !.queue = removeRequest(@, r),
            !.requests = [SettlePromise(@, r, "timeout") EXCEPT ![r].timer = FALSE]]
    /\ UNCHANGED <<storeVars, queueVars, retry, embed, query, batch, job, call>>

\* requests = this.queue.splice(0); every one of them is rejected
RECURSIVE RejectAll(_, _)
RejectAll(requests, q) ==
    IF q = <<>> THEN requests
    ELSE RejectAll(WrappedSettle(requests, Head(q), "cleared"), Tail(q))

\* clear()
clear ==
    /\ requestQueue' =
         [requestQueue EXCEPT !.queue = <<>>,
                              !.requests = RejectAll(@, requestQueue.queue)]
    /\ UNCHANGED <<storeVars, queueVars, retry, embed, query, batch, job, call>>

-----------------------------------------------------------------------------
(* Calls of the services' functions *)

NoCall == [fn |-> "none"]

\* the chunk texts stored for document d, by chunk index: how many rows hold
\* each (chunk_index, chunk_text)
StoredChunkTexts(d) ==
    LET rows == ChunksOf(d)
    IN [it \in {<<r.chunk_index, r.chunk_text>> : r \in DOMAIN rows} |->
          BagCardinality([r \in {x \in DOMAIN rows :
                                   <<x.chunk_index, x.chunk_text>> = it} |-> rows[r]])]

\* POST /documents/:id/reprocess asked twice in succession of document d, no
\* other call in between
TwiceBegin(d) ==
    /\ call = NoCall
    /\ AllIdle
    /\ d \in DOMAIN documents
    /\ call' = [fn |-> "reprocessDocument", doc |-> d, round |-> 0,
                outcomes |-> <<>>, stored |-> <<>>]
    /\ UNCHANGED <<storeVars, queueVars, retry, embed, query, batch, job, requestQueue>>

\* ragService.reprocessDocument(parseInt(id)), up to its first await
TwiceReprocess ==
    /\ call.fn = "reprocessDocument"
    /\ call.round < 2
    /\ SelectDocument(BatchProc, call.doc, AllIdle)

\* the call has returned or thrown and the controller has answered; what the
\* store holds of the document then is kept (not program state)
TwiceAnswered ==
    /\ call.fn = "reprocessDocument"
    /\ proc[BatchProc].pc = "done"
    /\ call' = [call EXCEPT !.round = @ + 1,
                            !.outcomes = Append(@, proc[BatchProc].outcome),
                            !.stored = Append(@, StoredChunkTexts(call.doc))]
    /\ proc' = [proc EXCEPT ![BatchProc] = IdleProc]
    /\ UNCHANGED <<documents, nextDocId, document_chunks>>
    /\ UNCHANGED <<queueVars, retry, embed, query, batch, job, requestQueue>>

\* both answers are in
TwiceEnd ==
    /\ call.fn = "reprocessDocument"
    /\ call.round = 2
    /\ call' = NoCall
    /\ UNCHANGED <<storeVars, queueVars, retry, embed, query, batch, job, requestQueue>>

\* the strings of up to n characters of alphabet
StringsOver(alphabet, n) == UNION {[1..k -> alphabet] : k \in 0..n}

\* the first paragraphs handed to chunkText: sentences of up to MaxLen
\* characters, trimmed as splitIntoParagraphs leaves them; and the second ones
FirstParagraphs ==
    {t \in StringsOver({"B", ".", " "}, MaxLen) : Len(t) > 0 /\ trim(t) = t}
SecondParagraphs == {<<"a">>, <<"B", "a", ".">>, <<"a", " ", "a", "a", "a", "a", "a">>}

\* chunkText(text, chunkSize, overlapSize) on the text of the paragraphs p1, p2
ChunkTextCalled(p1, p2, chunkSize, overlapSize) ==
    /\ call = NoCall
    /\ LET text == JoinParagraphs(<<p1, p2>>)
       IN /\ Len(text) > chunkSize * CHARS_PER_TOKEN
          /\ call' = [fn |-> "chunkText", paragraphs |-> <<p1, p2>>,
                      overlapSize |-> overlapSize,
                      chunks |-> chunkText(text, chunkSize, overlapSize)]
    /\ UNCHANGED <<storeVars, queueVars, retry, embed, query, batch, job, requestQueue>>

\* the texts pdf-parse may hand over: letters, blanks, line ends, NUL
CleanTextInputs == StringsOver({"a", " ", "\n", "\r", NUL}, MaxLen)

\* cleanText(t)
CleanTextCalled(t) ==
    /\ call = NoCall
    /\ call' = [fn |-> "cleanText", text |-> t, results |-> <<cleanText(t)>>]
    /\ UNCHANGED <<storeVars, queueVars, retry, embed, query, batch, job, requestQueue>>

\* cleanText called on its own result
CleanTextCalledAgain ==
    /\ call.fn = "cleanText"
    /\ Len(call.results) = 1
    /\ call' = [call EXCEPT !.results = Append(@, cleanText(call.results[1]))]
    /\ UNCHANGED <<storeVars, queueVars, retry, embed, query, batch, job, requestQueue>>

\* the GenerationConfig objects a caller may pass to generateText: every
\* field is optional; temperature and topP are counted in hundredths
ConfigValues ==
    [temperature |-> {0, 20, 70, 100},
     topK |-> {1, 40},
     topP |-> {85, 100},
     maxOutputTokens |-> {256, 1024, 8192}]
GenerationConfigs ==
    UNION {{c \in [fields -> UNION {ConfigValues[f] : f \in fields}] :
               \A f \in fields : c[f] \in ConfigValues[f]} :
           fields \in SUBSET {"temperature", "topK", "topP", "maxOutputTokens"}}

\* config?.field ?? byDefault
OrDefault(config, field, byDefault) ==
    IF field \in DOMAIN config THEN config[field] ELSE byDefault

\* the generationConfig generateText builds from its config argument
generationConfig(config) ==
    [temperature |-> OrDefault(config, "temperature", 70),
     topK |-> OrDefault(config, "topK", 40),
     topP |-> OrDefault(config, "topP", 95),
     maxOutputTokens |-> OrDefault(config, "maxOutputTokens", 1024)]

\* generateText(prompt, config): this.model.generateContent({contents,
\* generationConfig}) is sent
GenerateTextCalled(config) ==
    /\ call = NoCall
    /\ call' = [fn |-> "generateText", config |-> config,
                sent |-> generationConfig(config)]
    /\ UNCHANGED <<storeVars, queueVars, retry, embed, query, batch, job, requestQueue>>

\* answerQuestion: model.generateContent({contents, generationConfig}) is
\* sent with its own literal configuration
AnswerQuestionGenerates ==
    /\ call = NoCall
    /\ call' = [fn |-> "answerQuestion", config |-> <<>>,
                sent |-> [temperature |-> 20, topK |-> 20, topP |-> 85,
                          maxOutputTokens |-> 1024]]
    /\ UNCHANGED <<storeVars, queueVars, retry, embed, query, batch, job, requestQueue>>

\* the lengths of the vectors the embedding model returns: 768 for
\* text-embedding-004, the default EMBEDDING_MODEL, and 1536
ProviderDimensions == {768, 1536}

\* return new Array(1536).fill(0)
ZeroVector == [length |-> 1536, of |-> "zero"]

\* result.embedding.values of model.embedContent(text)
ProviderVector(text, dimension) == [length |-> dimension, of |-> text]

\* batchEmbeddings of texts.slice(i, i + batchSize) in embedBatch: failing
\* holds the 0-based indices of the texts whose embedContent call rejects
EmbedBatchResults(texts, failing, dimension, i) ==
    [k \in 1..Min({embedBatchSize, Len(texts) - i}) |->
        IF (i + k - 1) \in failing THEN ZeroVector
        ELSE ProviderVector(texts[i + k], dimension)]

RECURSIVE EmbedBatchLoop(_, _, _, _, _)
EmbedBatchLoop(texts, failing, dimension, i, embeddings) ==
    IF i >= Len(texts) THEN embeddings
    ELSE EmbedBatchLoop(texts, failing, dimension, i + embedBatchSize,
                        embeddings \o EmbedBatchResults(texts, failing, dimension, i))

embedBatch(texts, failing, dimension) == EmbedBatchLoop(texts, failing, dimension, 0, <<>>)

\* EmbeddingService.embedBatch(texts) of rag/services/embed.ts
EmbedBatchCalled(n, failing, dimension) ==
    /\ call = NoCall
    /\ LET texts == TextsOf(n)
       IN call' = [fn |-> "embedBatch", texts |-> texts, failing |-> failing,
                   embeddings |-> embedBatch(texts, failing, dimension)]
    /\ UNCHANGED <<storeVars, queueVars, retry, embed, query, batch, job, requestQueue>>

\* the caller has the result of a function called on its own
CallReturns ==
    /\ call.fn \in {"cleanText", "chunkText", "generateText", "answerQuestion",
                  "embedBatch"}
    /\ call' = NoCall
    /\ UNCHANGED <<storeVars, queueVars, retry, embed, query, batch, job, requestQueue>>

-----------------------------------------------------------------------------
(* Specifications *)

InitStore ==
    /\ documents = <<>>
    /\ nextDocId = 1
    /\ document_chunks = EmptyBag
    /\ proc = [p \in Procs |-> IdleProc]

InitQueue ==
    /\ queue = <<>>
    /\ processing = FALSE
    /\ lastRequestTime = 0
    /\ now = StartTime
    /\ req = <<>>
    /\ nextReq = 1
    /\ worker = IdleWorker
    /\ hist = [lastCall |-> -1, hintUntil |-> -1, releasedBeforeHint |-> FALSE]

InitRetry == retry = IdleRetry

InitEmbed == embed = IdleEmbed

InitQuery == query = IdleQuery

InitBatch == batch = IdleBatch

InitJob == job = NoJobs

InitRq == requestQueue = NewRequestQueue

InitCall == call = NoCall

Init ==
    /\ InitStore /\ InitQueue /\ InitRetry /\ InitEmbed /\ InitQuery
    /\ InitBatch /\ InitJob /\ InitRq /\ InitCall

\* the stores questions are asked of: up to MaxRows chunk rows of two
\* documents, one row for a chunk index, every row with its embedding
ChunkSlots == {1, 2} \X {0, 1}
StoredChunkSets ==
    UNION {[slots -> StoredTexts] :
             slots \in {S \in SUBSET ChunkSlots : Cardinality(S) <= MaxRows}}
StoredRow(slot, text) ==
    ChunkRow(slot[1],
             [text |-> text, index |-> slot[2], tokenCount |-> estimateTokenCount(Len(text))],
             Embedding(text))
InitStored ==
    \E stored \in StoredChunkSets :
        /\ documents = [d \in {1, 2} |->
                          JoinParagraphs([k \in 1..Cardinality({s \in DOMAIN stored : s[1] = d}) |->
                              stored[CHOOSE s \in DOMAIN stored :
                                        s[1] = d /\ Cardinality({t \in DOMAIN stored : t[1] = d /\ t[2] < s[2]}) = k - 1]])]
        /\ nextDocId = 3
        /\ document_chunks = SetToBag({StoredRow(s, stored[s]) : s \in DOMAIN stored})
        /\ proc = [p \in Procs |-> IdleProc]


\* A RequestQueue under every interleaving of enqueue, the loop's steps, the
\* timers and clear.
NextRq ==
    \/ \E priority \in Priorities, sleeps \in BOOLEAN : enqueue(priority, sleeps)
    \/ enqueueFull
    \/ \E l \in 1..MaxEnqueues : SleepResolves(l)
    \/ \E l \in 1..MaxEnqueues, ok \in BOOLEAN, sleeps \in BOOLEAN : ExecuteSettles(l, ok, sleeps)
    \/ \E r \in 1..MaxEnqueues : TimerFires(r)
    \/ clear

SpecRq == Init /\ [][NextRq]_vars

\* The same, where every sleep of the loop ends and every operation called
\* settles.  Nothing is assumed of the timers and of the callers.
SpecRqFair ==
    /\ SpecRq
    /\ WF_vars(\E l \in 1..MaxEnqueues : SleepResolves(l))
    /\ WF_vars(\E l \in 1..MaxEnqueues, ok \in BOOLEAN, sleeps \in BOOLEAN :
                   ExecuteSettles(l, ok, sleeps))

\* The ingestion queue and its worker, with causes of transient failures that
\* come and go.
NextJob ==
    \/ \E kind \in FaultKinds : FaultAppears(kind)
    \/ FaultClears
    \/ \E d \in JobDocs, hasText \in BOOLEAN : JobAdded(d, hasText)
    \/ \E d \in JobDocs : JobTaken(d)
    \/ \E d \in JobDocs : JobSelects(d)
    \/ \E d \in JobDocs : JobDownloads(d)
    \/ \E d \in JobDocs : JobExtracts(d)
    \/ \E d \in JobDocs : JobIndexes(d)
    \/ \E d \in JobDocs : JobCatches(d)

SpecJob == Init /\ [][NextJob]_vars

\* The Ingestor's calls running concurrently, on one uploaded text.
Next ==
    \/ \E p \in Procs, text \in ConcurrentTexts :
          \E failing \in FailingSets(ChunksOfText(text)) :
              InsertDocument(p, text, failing, FirstIdle(p), MaxDocsConcurrent)
    \/ \E p \in Procs : InsertChunk(p)
    \/ \E p \in Procs, d \in DocIds : SelectDocument(p, d, FirstIdle(p))
    \/ \E p \in Procs : DeleteOldChunks(p)
    \/ \E p \in Procs, d \in DocIds : DeleteChunks(p, d, FirstIdle(p))
    \/ \E p \in Procs : DeleteDocumentRow(p)
    \/ \E p \in Procs : Return(p)

Spec == Init /\ [][Next]_vars

\* The Ingestor's calls made one at a time: a call begins only when no other is
\* running.
NextSerial ==
    \/ \E p \in Procs, text \in ExtractedTexts :
          \E failing \in FailingSets(ChunksOfText(text)) :
              InsertDocument(p, text, failing, AllIdle /\ FirstIdle(p), MaxDocs)
    \/ \E p \in Procs : InsertChunk(p)
    \/ \E p \in Procs, d \in DocIds : SelectDocument(p, d, AllIdle /\ FirstIdle(p))
    \/ \E p \in Procs : DeleteOldChunks(p)
    \/ \E p \in Procs, d \in DocIds : DeleteChunks(p, d, AllIdle /\ FirstIdle(p))
    \/ \E p \in Procs : DeleteDocumentRow(p)
    \/ \E p \in Procs : Return(p)

SpecSerial == Init /\ [][NextSerial]_vars

\* The Model Client: enqueue calls, the queue's worker, the provider, the
\* timers and the clock.
NextQueue ==
    \/ \E priority \in Priorities : Enqueue(priority)
    \/ Wake
    \/ \E outcome \in Outcomes, hint \in Hints : ProviderAnswers(outcome, hint)
    \/ Retry
    \/ \E r \in 1..NumReqs : TimeoutFires(r)
    \/ Tick

SpecQueue == Init /\ [][NextQueue]_vars

\* retryWithBackoff run on every operation: every sequence of outcomes of fn,
\* every maxRetries up to MaxRetriesTried, either retry condition.
NextRetry ==
    \/ \E maxRet \in 0..MaxRetriesTried, condition \in RetryConditions :
          RetryStart(maxRet, condition)
    \/ \E outcome \in FnOutcomes, hint \in Hints : FnSettles(outcome, hint)
    \/ SleepEnds
    \/ RetryReturns

SpecRetry == Init /\ [][NextRetry]_vars

\* every invocation of fn settles and every sleep ends
SpecRetryFair == SpecRetry /\ WF_vars(NextRetry)

\* The embedding provider calls of one ingestion and of concurrent queries.
NextEmbed ==
    \/ \E n \in 1..MaxTexts : BatchStart(n)
    \/ \E k \in 0..(MaxTexts - 1), ok \in BOOLEAN : EmbedSettles(k, ok)
    \/ DelayEnds
    \/ BatchReturns
    \/ QueryEmbedStarts
    \/ QueryEmbedSettles

SpecEmbed == Init /\ [][NextEmbed]_vars

\* Questions asked of a store at rest: retrieveRelevantChunks called on its
\* own with every topK up to MaxTopK, and answerQuestion.
NextQuery ==
    \/ \E question \in Questions, topK \in 0..MaxTopK : RetrieveChunks(question, topK)
    \/ RetrieveFails
    \/ \E question \in Questions : AskQuestion(question)
    \/ \E text \in GeneratorTexts : GeneratorAnswers(text)
    \/ GeneratorFails
    \/ QueryReturns

InitAsked ==
    /\ InitStored /\ InitQueue /\ InitRetry /\ InitEmbed /\ InitQuery
    /\ InitBatch /\ InitJob /\ InitRq /\ InitCall

SpecQuery == InitAsked /\ [][NextQuery]_vars

\* reprocessAllDocuments served by one handler while the other serves uploads
\* and deletions.
NextBatch ==
    \/ \E text \in ConcurrentTexts :
          \E failing \in FailingSets(ChunksOfText(text)) :
              InsertDocument(OtherProc, text, failing, TRUE, MaxDocs)
    \/ \E d \in DocIds : DeleteChunks(OtherProc, d, TRUE)
    \/ DeleteDocumentRow(OtherProc)
    \/ Return(OtherProc)
    \/ BatchSelect
    \/ BatchReprocess
    \/ DeleteOldChunks(BatchProc)
    \/ \E p \in Procs : InsertChunk(p)
    \/ BatchCount
    \/ BatchReturn
    \/ BatchEnd

SpecBatch == Init /\ [][NextBatch]_vars

\* Documents uploaded one at a time, and one of them reprocessed twice in
\* succession.
NextTwice ==
    \/ \E text \in ExtractedTexts :
          \E failing \in FailingSets(ChunksOfText(text)) :
              InsertDocument(OtherProc, text, failing, AllIdle /\ call = NoCall, MaxDocs)
    \/ \E p \in Procs : InsertChunk(p)
    \/ Return(OtherProc)
    \/ \E d \in DocIds : TwiceBegin(d)
    \/ TwiceReprocess
    \/ DeleteOldChunks(BatchProc)
    \/ TwiceAnswered
    \/ TwiceEnd

SpecTwice == Init /\ [][NextTwice]_vars

\* cleanText called on every short text, and again on its result.
NextClean ==
    \/ \E t \in CleanTextInputs : CleanTextCalled(t)
    \/ CleanTextCalledAgain
    \/ CallReturns

SpecClean == Init /\ [][NextClean]_vars

\* chunkText called on texts of two paragraphs that do not fit one chunk.
NextChunk ==
    \/ \E p1 \in FirstParagraphs, p2 \in SecondParagraphs :
          \E chunkSize \in 1..CHUNK_TOKENS, overlapSize \in 1..CHUNK_OVERLAP_TOKENS :
              ChunkTextCalled(p1, p2, chunkSize, overlapSize)
    \/ CallReturns

SpecChunk == Init /\ [][NextChunk]_vars

\* The generation requests sent to the provider: by generateText with every
\* configuration a caller may pass, and by answerQuestion.
NextGenerate ==
    \/ \E config \in GenerationConfigs : GenerateTextCalled(config)
    \/ AnswerQuestionGenerates
    \/ CallReturns

SpecGenerate == Init /\ [][NextGenerate]_vars

\* embedBatch called on every list of up to MaxBatchTexts texts, the provider
\* failing on any of them, with either vector length.
NextEmbedBatch ==
    \/ \E n \in 0..MaxBatchTexts, dimension \in ProviderDimensions :
          \E failing \in SUBSET (0..(n - 1)) : EmbedBatchCalled(n, failing, dimension)
    \/ CallReturns

SpecEmbedBatch == Init /\ [][NextEmbedBatch]_vars

-----------------------------------------------------------------------------
(* Claims about the Store and the Ingestor *)

\* the chunk_index values stored for document d
StoredIndices(d) == {r.chunk_index : r \in DOMAIN ChunksOf(d)}

\* the number of rows stored for document d
RowCount(d) == BagCardinality(ChunksOf(d))

\* an Ingestor call that chunked and embedded a text
Ingested(p) ==
    /\ proc[p].op \in {"process", "reprocess"}
    /\ proc[p].pc \in {"insertChunk", "done"}
    /\ proc[p].outcome # "NotFound"

\* C1: for a document that held its complete chunk set when reprocessDocument
\* began, the rows a read finds at any moment during and after the call are a
\* complete chunk set of the document, never an empty or a partial one.
\* (Stated of SpecSerial, where no other call touches the document meanwhile.)
C1_ReprocessNeverExposesPartialSet ==
    \A p \in Procs :
        (/\ proc[p].op = "reprocess"
         /\ proc[p].pc \in {"deleteOldChunks", "insertChunk", "done"}
         /\ proc[p].hadAll)
        => HasAllChunks(proc[p].documentId)

\* C2: with the calls made one at a time, a document that has n >= 1 stored
\* chunks has the chunk_index values 0 .. n-1, each once.
C2_ChunkIndicesContiguous ==
    \A d \in DocIds : RowCount(d) >= 1 => StoredIndices(d) = 0..(RowCount(d) - 1)

\* C2's case: a reprocess some of whose embeddings failed has ended, and the
\* document holds chunks
C2_Witness ==
    \E p \in Procs :
        /\ proc[p].op = "reprocess"
        /\ proc[p].pc = "done"
        /\ proc[p].failed # {}
        /\ RowCount(proc[p].documentId) >= 1

\* C3: every stored chunk's documentid is the id of a stored document, in every
\* interleaving of the Ingestor's calls.
C3_ChunksReferToLiveDocuments ==
    \A r \in DOMAIN document_chunks : r.documentid \in DOMAIN documents

\* C3's case: deleteDocument(d) removed d while a processDocument or
\* reprocessDocument of d was storing chunks, whose next INSERT was refused
C3_Witness ==
    \E p \in Procs :
        /\ proc[p].op \in {"process", "reprocess"}
        /\ proc[p].outcome = "ForeignKeyViolation"
        /\ proc[p].documentId \notin DOMAIN documents

\* C4: when the embedding of some but not all chunks fails, processDocument
\* ends without throwing and the stored chunks are exactly those whose
\* embedding succeeded.
C4_PartialFailureStoresSucceeded ==
    \A p \in Procs :
        (/\ proc[p].op = "process"
         /\ proc[p].pc = "done"
         /\ proc[p].failed # {}
         /\ proc[p].failed # 0..(Len(proc[p].chunks) - 1))
        => /\ proc[p].outcome = "ok"
           /\ StoredIndices(proc[p].documentId) = (0..(Len(proc[p].chunks) - 1)) \ proc[p].failed

\* C5: generateBatchEmbeddings(texts) is as long as texts, and its i-th element
\* is the vector of texts[i] or the error sentinel.
C5_BatchEmbeddingsAligned ==
    \A p \in Procs :
        Ingested(p) =>
            /\ Len(proc[p].embeddings) = Len(proc[p].chunks)
            /\ \A k \in 1..Len(proc[p].embeddings) :
                  \/ proc[p].embeddings[k] = Embedding(proc[p].chunks[k].text)
                  \/ proc[p].embeddings[k] = null

-----------------------------------------------------------------------------
(* Claims about the Model Client *)

\* this step is the enqueue call that makes request r
Called(r) == r = nextReq /\ nextReq' = nextReq + 1

\* this step takes request r out of the queue and starts its operation
Dispatched(r) ==
    /\ r \in DOMAIN req'
    /\ req'[r].started
    /\ r \in DOMAIN req => ~req[r].started

\* this step starts a call to the provider, a first attempt or a retry
CallStarts ==
    /\ worker'.pc = "calling"
    /\ worker.pc # "calling" \/ worker'.request # worker.request

\* request r timed out while it was waiting in the queue
TimedOutInQueue(r) == req[r].settled = "Timeout" /\ ~req[r].started

\* C6: the queue never holds more than maxQueueSize requests; an enqueue call
\* made while it holds maxQueueSize is rejected in the same step with the
\* queue-full error, is not put on the queue, and is never executed.
C6_QueueBoundedAndFullRejected ==
    [][/\ Len(queue') <= maxQueueSize
       /\ \A r \in 1..NumReqs :
             (Called(r) /\ Len(queue) >= maxQueueSize)
             => /\ req'[r].settled = "QueueFull"
                /\ ~req'[r].started
                /\ queue' = queue
                /\ worker' = worker
       /\ \A r \in DOMAIN req :
             req[r].settled = "QueueFull"
             => /\ req'[r].settled = "QueueFull"
                /\ ~req'[r].started
                /\ r \notin Range(queue')]_vars

\* C6's case: a call was refused with the queue-full error, the queue holding
\* maxQueueSize requests
C6_Witness ==
    /\ Len(queue) = maxQueueSize
    /\ \E r \in DOMAIN req : req[r].settled = "QueueFull"

C8_ProviderCallsSpaced ==
    [][(CallStarts /\ hist.lastCall # -1)
       => now - hist.lastCall >= requestInterval]_vars

\* C8, amended: a request is dispatched at least requestInterval after the
\* dispatch before it.
C8_DispatchesSpaced ==
    [][\A r \in 1..NumReqs :
          (Dispatched(r) /\ lastRequestTime # 0)
          => now - lastRequestTime >= requestInterval]_vars

\* the amended C8's case: two requests have been dispatched, and the second is
\* in a retry attempt
C8_Witness ==
    /\ \E r, e \in DOMAIN req : r # e /\ req[r].started /\ req[e].started
    /\ worker.pc = "calling"
    /\ worker.attempt >= 1
    /\ now - lastRequestTime < requestInterval

\* C9: when a request is dispatched, every request enqueued before it that is
\* still waiting has a strictly lower priority: equal priorities leave in
\* enqueue order, and only a strictly higher priority overtakes.
C9_FifoWithinPriority ==
    [][\A r \in 1..NumReqs :
          Dispatched(r)
          => \A e \in Range(queue') : e < r => req'[e].priority < req'[r].priority]_vars

\* C9's case: a request was dispatched ahead of an earlier one of lower
\* priority that still waits, and after an earlier one of its own priority
C9_Witness ==
    \E r, e, f \in DOMAIN req :
        /\ e < r
        /\ f < r
        /\ req[r].started
        /\ req[f].started
        /\ req[f].priority = req[r].priority
        /\ e \in Range(queue)
        /\ req[r].priority > req[e].priority

\* C10: a request whose timer fires while it waits in the queue leaves the
\* queue, its promise is rejected with the timeout error, and from then on it
\* is never put back nor executed.
C10_TimedOutNeverExecuted ==
    [][\A r \in DOMAIN req :
          /\ (r \in Range(queue) /\ req[r].timer # -1 /\ req'[r].timer = -1)
             => /\ req'[r].settled = "Timeout"
                /\ r \notin Range(queue')
          /\ TimedOutInQueue(r)
             => /\ req'[r].settled = "Timeout"
                /\ ~req'[r].started
                /\ r \notin Range(queue')]_vars

\* C10's case: a request timed out in the queue, and the worker has since
\* executed another and emptied the queue
C10_Witness ==
    \E r, e \in DOMAIN req :
        /\ TimedOutInQueue(r)
        /\ r < e
        /\ req[e].started
        /\ req[e].settled = "resolved"
        /\ worker.pc = "idle"

-----------------------------------------------------------------------------
(* Claims about retryWithBackoff *)

\* the outcome of the latest invocation of fn
LastOutcome == retry.outcomes[Len(retry.outcomes)]

\* fn has failed in an attempt that is not the last one allowed, and
\* retryWithBackoff has decided between retrying and throwing
DecidedAfterFailure ==
    /\ retry.pc \in {"sleeping", "thrown"}
    /\ retry.attempt < retry.maxRetries

\* C11: under generateText's retry configuration, a failed call that is not
\* the last one allowed is retried exactly when it failed with a 5xx status
\* or a connection reset; a 429 is never retried.
C11_RetriedIffTransient ==
    (/\ retry.condition = "generateText"
     /\ retry.maxRetries = maxRetries
     /\ DecidedAfterFailure)
    => (retry.pc = "sleeping" <=> LastOutcome.kind \in {"e5xx", "reset"})

\* C13: retryWithBackoff invokes fn at most maxRetries + 1 times; when it
\* returns, it returns the result of the first invocation that succeeded;
\* when it throws, it throws the error of the last invocation; and every run
\* ends in one of the two.
C13_AttemptsBoundedAndLastErrorThrown ==
    /\ [](/\ Len(retry.outcomes) <= retry.maxRetries + 1
          /\ retry.pc = "returned"
             => /\ retry.of = Len(retry.outcomes)
                /\ LastOutcome.kind = "ok"
                /\ \A k \in 1..(Len(retry.outcomes) - 1) : retry.outcomes[k].kind # "ok"
          /\ retry.pc = "thrown"
             => /\ retry.of = Len(retry.outcomes)
                /\ LastOutcome.kind # "ok")
    /\ (retry.pc = "calling" ~> retry.pc \in {"returned", "thrown"})

\* C13's case: fn failed maxRetries times, was retried each time, and the run
\* ended at invocation maxRetries + 1
C13_Witness ==
    /\ retry.pc \in {"returned", "thrown"}
    /\ retry.maxRetries = MaxRetriesTried
    /\ Len(retry.outcomes) = retry.maxRetries + 1

-----------------------------------------------------------------------------
(* Claims about the Model Client and RetryInfo *)

\* C12: after an answer of the provider that carries a RetryInfo, the queue
\* releases its next request no earlier than the hinted delay after that
\* answer.
C12_ReleaseWaitsForHint == ~hist.releasedBeforeHint

-----------------------------------------------------------------------------
(* Claims about the Embedder's provider calls *)

\* the calls of model.embedContent that have been made and have not settled
EmbeddingCallsInFlight ==
    Cardinality(embed.inFlight) + (IF embed.queryInFlight THEN 1 ELSE 0)

\* C14: at most one embedding provider call is in flight at any time, over
\* the ingestion and the queries that run concurrently.
C14_OneEmbeddingCallInFlight == EmbeddingCallsInFlight <= 1

-----------------------------------------------------------------------------
(* Claims about concurrent calls of the Ingestor *)

\* handler p has finished a reprocessDocument of d all of whose embeddings
\* succeeded
ReprocessedFully(p, d) ==
    /\ proc[p].op = "reprocess"
    /\ proc[p].documentId = d
    /\ proc[p].pc = "done"
    /\ proc[p].outcome = "ok"
    /\ proc[p].failed = {}

\* C15: when two reprocessDocument calls on the same document that ran
\* concurrently have both completed, the document holds exactly one copy of
\* its chunk set.
C15_ConcurrentReprocessOneCopy ==
    \A d \in DocIds :
        (\A p \in Procs : ReprocessedFully(p, d)) => HasAllChunks(d)

-----------------------------------------------------------------------------
(* Claims about the Retriever *)

\* retrieveRelevantChunks has returned query.sources
HasRetrieved == query.pc \in {"retrieved", "generating", "answered"}

\* C16: retrieveRelevantChunks returns at most topK sources, every one with a
\* relevanceScore of at least the minimum score, and the relevanceScore never
\* increases from one source to the next.
C16_AtMostTopKRelevantDescending ==
    HasRetrieved =>
        /\ Len(query.sources) <= query.topK
        /\ \A i \in 1..Len(query.sources) :
              query.sources[i].relevanceScore >= MIN_RELEVANCE_SCORE
        /\ \A i \in 1..(Len(query.sources) - 1) :
              query.sources[i].relevanceScore >= query.sources[i + 1].relevanceScore

\* three rows are relevant to the question, with different scores, and the two
\* best are returned for topK = 2
C16_Witness ==
    /\ query.pc = "retrieved"
    /\ query.topK = 2
    /\ Cardinality({r \in DOMAIN document_chunks :
                       IsRelevant(cosineSimilarity(query.question, r.embedding))}) = 3
    /\ Len(query.sources) = 2
    /\ query.sources[1].relevanceScore > query.sources[2].relevanceScore

\* C17: sources of equal relevanceScore are in the order of document id
\* ascending and then chunk index ascending, whatever the order in which the
\* rows were read.
C17_TiesByDocumentThenChunk ==
    HasRetrieved =>
        \A i \in 1..(Len(query.sources) - 1) :
            LET a == query.sources[i]
                b == query.sources[i + 1]
            IN a.relevanceScore = b.relevanceScore =>
                  \/ a.documentId < b.documentId
                  \/ a.documentId = b.documentId /\ a.chunkIndex <= b.chunkIndex

-----------------------------------------------------------------------------
(* Claims about the Answerer *)

\* C18: the confidence of every answerQuestion result lies in [0, 1], and it
\* is 0 exactly when the returned sources list is empty.
C18_ConfidenceInUnitIntervalZeroIffNoSources ==
    query.pc = "answered" =>
        /\ 0 <= query.confidence.num
        /\ query.confidence.num <= One * query.confidence.den
        /\ (query.confidence.num = 0) <=> (query.sources = <<>>)

\* an answer with citations whose boosted confidence was cut down to 1
C18_Witness ==
    /\ query.pc = "answered"
    /\ query.sources # <<>>
    /\ hasCitations(query.text)
    /\ 11 * query.sources[1].relevanceScore > 10 * One
    /\ query.confidence = [num |-> One, den |-> 1]

\* C19: an answerQuestion result with sources has an answer that holds a
\* [SOURCE i] citation or is the generator's text with the note appended.
C19_CitedOrNoteAppended ==
    (query.pc = "answered" /\ query.sources # <<>>) =>
        \/ hasCitations(query.answer)
        \/ query.answer = query.text \o Note

\* the generator echoes a source header, which is no citation, and the note
\* is appended
C19_Witness ==
    /\ query.pc = "answered"
    /\ query.sources # <<>>
    /\ OccursAt(query.text, <<"[", "S", "O", "U", "R", "C", "E", " ">>, 0)
    /\ ~hasCitations(query.text)
    /\ query.answer = query.text \o Note

-----------------------------------------------------------------------------
(* Claims about the Extractor's empty text *)

\* C20: when the text extracted from an uploaded PDF is empty, processDocument
\* fails with an extraction-failed error and writes no document row and no
\* chunk row.
C20_EmptyTextFailsAndWritesNothing ==
    [][\A p \in Procs :
          (proc[p].pc = "idle" /\ proc'[p].op = "process" /\ proc'[p].text = <<>>) =>
              /\ proc'[p].outcome = "ExtractFailed"
              /\ documents' = documents
              /\ document_chunks' = document_chunks]_vars

-----------------------------------------------------------------------------
(* Claims about reprocessAllDocuments *)

-----------------------------------------------------------------------------
(* Claims about reprocessing twice *)

\* C22: after reprocessDocument has been called twice in succession
\* on a document whose stored text did not change, the document has the same
\* number of chunks, with the same texts at the same indices, as after the
\* first call.
C22_TwiceAsOnce ==
    (call.fn = "reprocessDocument" /\ call.round = 2) =>
        call.stored[2] = call.stored[1]

-----------------------------------------------------------------------------
(* Claims about the Extractor's cleanText *)

\* C23: cleanText is idempotent: cleanText(cleanText(t)) = cleanText(t) for
\* every string t.
C23_CleanTextIdempotent ==
    (call.fn = "cleanText" /\ Len(call.results) = 2) =>
        call.results[2] = call.results[1]

-----------------------------------------------------------------------------
(* Claims about the Chunker *)

\* the last n characters of s
Suffix(s, n) == SubSeq(s, Len(s) - n + 1, Len(s))

-----------------------------------------------------------------------------
(* Claims about the generation requests *)

\* C25: every generation request sent to the provider has a temperature of at
\* most 0.2 and a maximum output length of at most the fixed ceiling (1024
\* tokens, the greatest the code itself ever sets), whatever configuration the
\* caller passed.
C25_GenerationConfigCapped ==
    call.fn \in {"generateText", "answerQuestion"} =>
        /\ call.sent.temperature <= 20
        /\ call.sent.maxOutputTokens <= 1024

-----------------------------------------------------------------------------
(* Claims about EmbeddingService.embedBatch *)

\* C26: embedBatch returns one embedding for every input text, in the order
\* of the input, each of length 1536, whether the provider call of an item
\* succeeds or fails.
C26_OneEmbeddingOfLength1536PerText ==
    call.fn = "embedBatch" =>
        /\ Len(call.embeddings) = Len(call.texts)
        /\ \A k \in 1..Len(call.texts) :
              /\ call.embeddings[k].length = 1536
              /\ call.embeddings[k].of = IF (k - 1) \in call.failing THEN "zero"
                                         ELSE call.texts[k]

-----------------------------------------------------------------------------
(* Claims about the stored embeddings *)

\* C27: every chunk row that processDocument or reprocessDocument stored holds
\* the embedding computed from the text of that same chunk, also when the
\* embedding of another chunk of the document failed.
C27_RowHoldsEmbeddingOfItsChunk ==
    \A r \in DOMAIN document_chunks : r.embedding = Embedding(r.chunk_text).values


\* C29: at any time at most one queued request's operation is executing,
\* whatever the interleaving of enqueue calls, timer expiries, clear calls and
\* completions.
C29_AtMostOneOperationExecuting == Cardinality(Executing) <= 1

\* an operation is executing while another request waits in the queue, after a
\* clear and a timer that fired during an execution
C29_Witness ==
    /\ Cardinality(Executing) = 1
    /\ requestQueue.queue # <<>>
    /\ \E r \in DOMAIN requestQueue.requests : requestQueue.requests[r].settled = "cleared"
    /\ \E r \in DOMAIN requestQueue.requests : requestQueue.requests[r].settled = "timeout"

\* C28: provided every operation that is executed terminates, every request
\* enqueue accepted is eventually settled, and settled once: its outcome,
\* resolved, rejected, timed out or cleared, never changes afterwards; no
\* accepted request stays pending while the queue is idle.
C28_AcceptedRequestSettledOnce ==
    /\ \A r \in 1..MaxEnqueues :
          (r \in DOMAIN requestQueue.requests)
             ~> (/\ r \in DOMAIN requestQueue.requests
                 /\ requestQueue.requests[r].settled # "pending")
    /\ [][\A r \in DOMAIN requestQueue.requests :
             requestQueue.requests[r].settled # "pending"
                => requestQueue'.requests[r].settled = requestQueue.requests[r].settled]_vars
    /\ [](\A r \in DOMAIN requestQueue.requests :
             requestQueue.requests[r].settled = "pending"
                => requestQueue.processing \/ requestQueue.requests[r].timer)

\* a request that was queued behind an executing one has been executed and
\* resolved after a clear call rejected another and a timer fired on a third
C28_Witness ==
    /\ \E r \in DOMAIN requestQueue.requests :
          r > 1 /\ requestQueue.requests[r].settled = "resolved"
    /\ \E r \in DOMAIN requestQueue.requests : requestQueue.requests[r].settled = "cleared"
    /\ \E r \in DOMAIN requestQueue.requests : requestQueue.requests[r].settled = "timeout"
    /\ ~requestQueue.processing


\* C30: an ingestion job for an approved document whose first attempt failed
\* with a transient error, and that is retried once the cause of the failure
\* is gone, does not end failed: the retry completes the job.
C30_RetryAfterTransientFailureCompletes ==
    \A d \in DOMAIN job.jobs :
        (/\ job.jobs[d].firstError = "transient"
         /\ job.jobs[d].afterCause
         /\ job.jobs[d].hasText)
            => /\ job.jobs[d].state # "failed"
               /\ job.jobs[d].error # "not approved"

====
